---- MODULE Spec2Model ----
(***************************************************************************)
(* A model of the log-template miner (src/drain_parser.py), the storage    *)
(* layer (src/database.py), the retrieval orchestrator                     *)
(* (src/rag_framework.py), the processing of one ingested line            *)
(* (src/log_ingestion.py) and the remediation path (src/mcp_tools.py,      *)
(* src/approval_gate.py, src/mcp_server.py, src/incident_handler.py).      *)
(*                                                                         *)
(* Text is modelled as a sequence of one-character strings, so that        *)
(* tokenising, masking, truncating, joining and re-tokenising are computed *)
(* character by character, as the code computes them.                      *)
(***************************************************************************)
EXTENDS Integers, Sequences, FiniteSets, TLC

VARIABLES
    cfg,            \* DrainParser.depth / .max_child of the live parser
    tree,           \* DrainParser.root: path of child keys -> DrainNode
    template_cache, \* DrainParser.template_cache: log_line -> template
    templates,      \* table templates: row i has template_id i
    calls,          \* observation: one record per parse call, in order
    restarts,       \* observation: number of parsers constructed after the first
    logs,           \* table logs: row i has log_id i
    lexical_index,  \* table lexical_index, in insertion order
    incidents,      \* table incidents: row i has incident_id i
    now,            \* the wall clock, in hours
    rag,            \* observation: the last retrieve_relevant_logs call
    threads,        \* the producers inside parse: position and locals of each
    worker,         \* LogIngestion: running, and the worker thread's position
    out,            \* observation: the last call made of a function alone
    config,         \* config.json: the actions that need approval, dry_run_mode
    actions,        \* table actions: row i has action_id i
    audit           \* mcp_audit.log, one record per line

parserVars == <<cfg, tree, template_cache, templates, calls, restarts>>
dbVars == <<logs, lexical_index, incidents, now>>
mcpVars == <<config, actions, audit>>
otherVars == <<threads, worker, out, mcpVars>>
vars == <<cfg, tree, template_cache, templates, calls, restarts,
          logs, lexical_index, incidents, now, rag, threads, worker, out,
          config, actions, audit>>

(***************************************************************************)
(* Bounds of the model.                                                    *)
(***************************************************************************)
MaxParses == 3
MaxRestarts == 1

(***************************************************************************)
(* Characters and sequences.                                               *)
(***************************************************************************)
Digits == {"0", "1", "2", "3", "4", "5", "6", "7", "8", "9"}
HexDigits == Digits \cup {"a", "b", "c", "d", "e", "f", "A", "B", "C", "D", "E", "F"}
UpperCase == <<"A", "B", "C", "D", "E", "F", "G", "H", "I", "J", "K", "L", "M",
               "N", "O", "P", "Q", "R", "S", "T", "U", "V", "W", "X", "Y", "Z">>
LowerCase == <<"a", "b", "c", "d", "e", "f", "g", "h", "i", "j", "k", "l", "m",
               "n", "o", "p", "q", "r", "s", "t", "u", "v", "w", "x", "y", "z">>
Whitespace == {" ", "\t", "\n"}

Range(s) == {s[i] : i \in 1..Len(s)}
Letters == Range(UpperCase) \cup Range(LowerCase)

\* s[:n]
Prefix(s, n) == SubSeq(s, 1, IF n < Len(s) THEN n ELSE Len(s))
\* s[n:] for a 0-based n
Suffix(s, n) == SubSeq(s, n + 1, Len(s))

\* the number of leading characters of s that are (ws = TRUE) or are not
\* (ws = FALSE) whitespace
RECURSIVE Run(_, _)
Run(s, ws) ==
    IF s = <<>> \/ ((s[1] \in Whitespace) # ws) THEN 0
    ELSE 1 + Run(Tail(s), ws)

\* str.split(): the maximal runs of non-whitespace characters, in order
RECURSIVE SplitWs(_)
SplitWs(s) ==
    LET r == Suffix(s, Run(s, TRUE))
        n == Run(r, FALSE)
    IN IF r = <<>> THEN <<>> ELSE <<Prefix(r, n)>> \o SplitWs(Suffix(r, n))

\* ' '.join(tokens)
RECURSIVE JoinSp(_)
JoinSp(tokens) ==
    IF tokens = <<>> THEN <<>>
    ELSE IF Len(tokens) = 1 THEN tokens[1]
    ELSE tokens[1] \o <<" ">> \o JoinSp(Tail(tokens))

(***************************************************************************)
(* DrainParser._tokenize                                                   *)
(***************************************************************************)
NUM == <<"<", "N", "U", "M", ">">>
IP == <<"<", "I", "P", ">">>
HEX == <<"<", "H", "E", "X", ">">>
PATH == <<"<", "P", "A", "T", "H", ">">>
WILD == <<"<", "*", ">">>

\* re.match(r'^\d+$', token)
IsNumber(t) == Len(t) > 0 /\ \A i \in 1..Len(t) : t[i] \in Digits

\* re.match(r'^\d+\.\d+\.\d+\.\d+$', token): four non-empty digit runs
\* separated by three dots
IsIPAddress(t) ==
    /\ Len(t) > 0
    /\ \A i \in 1..Len(t) : t[i] \in Digits \cup {"."}
    /\ Cardinality({i \in 1..Len(t) : t[i] = "."}) = 3
    /\ t[1] # "." /\ t[Len(t)] # "."
    /\ \A i \in 1..(Len(t) - 1) : ~(t[i] = "." /\ t[i + 1] = ".")

\* re.match(r'^0x[0-9a-fA-F]+$', token)
IsHexValue(t) ==
    /\ Len(t) >= 3
    /\ t[1] = "0" /\ t[2] = "x"
    /\ \A i \in 3..Len(t) : t[i] \in HexDigits

\* '/' in token or '\\' in token
IsPathToken(t) == \E i \in 1..Len(t) : t[i] \in {"/", "\\"}

\* mutant of line 80: every token that starts with 0x is taken for a hex value
MaskTokenLooseHex(t) ==
    IF IsNumber(t) THEN NUM
    ELSE IF IsIPAddress(t) THEN IP
    ELSE IF Len(t) >= 2 /\ t[1] = "0" /\ t[2] = "x" THEN HEX
    ELSE IF IsPathToken(t) THEN PATH
    ELSE t

MaskToken(t) ==
    IF IsNumber(t) THEN NUM
    ELSE IF IsIPAddress(t) THEN IP
    ELSE IF IsHexValue(t) THEN HEX
    ELSE IF IsPathToken(t) THEN PATH
    ELSE t

Tokenize(log_line) ==
    LET tokens == SplitWs(log_line)
    IN [i \in 1..Len(tokens) |-> MaskToken(tokens[i])]

(***************************************************************************)
(* DrainParser._calculate_similarity: the Jaccard similarity of the token  *)
(* sets, kept as the exact fraction <<numerator, denominator>>.            *)
(***************************************************************************)
\* mutant of lines 96-97: the lengths of the sequences stand for the sizes
\* of their sets
CalculateSimilarityOfLists(tokens1, tokens2) ==
    LET set1 == {tokens1[i] : i \in 1..Len(tokens1)}
        set2 == {tokens2[i] : i \in 1..Len(tokens2)}
        intersection == Cardinality(set1 \cap set2)
        union == Len(tokens1) + Len(tokens2) - intersection
    IN IF Len(tokens1) = 0 /\ Len(tokens2) = 0 THEN <<1, 1>>
       ELSE IF union > 0 THEN <<intersection, union>> ELSE <<0, 1>>

CalculateSimilarity(tokens1, tokens2) ==
    LET set1 == Range(tokens1)
        set2 == Range(tokens2)
        intersection == Cardinality(set1 \cap set2)
        union == Cardinality(set1 \cup set2)
    IN IF set1 = {} /\ set2 = {} THEN <<1, 1>>
       ELSE IF union > 0 THEN <<intersection, union>> ELSE <<0, 1>>

\* a > b and a >= b on fractions with positive denominators
FracGT(a, b) == a[1] * b[2] > b[1] * a[2]
FracGE(a, b) == a[1] * b[2] >= b[1] * a[2]

\* DrainParser.st, the similarity threshold 0.5
SimilarityThreshold == <<1, 2>>

(***************************************************************************)
(* The tree.  tree[path] is the DrainNode reached from the root by the     *)
(* child keys of path; node.children is the set of paths one key longer.   *)
(***************************************************************************)
NoToken == <<>>
NewNode(depth, token) == [depth |-> depth, token |-> token, log_groups |-> <<>>]

Children(tr, path) ==
    {q \in DOMAIN tr : Len(q) = Len(path) + 1 /\ SubSeq(q, 1, Len(path)) = path}

\* what _find_best_match returns when it returns None
NoMatch == [node |-> <<>>, idx |-> 0]

\* the loop over node.log_groups of _find_best_match: the index of the first
\* group of highest similarity among those reaching st, 0 when there is none
RECURSIVE BestGroup(_, _, _, _, _)
BestGroup(groups, tokens, i, best_idx, best_similarity) ==
    IF i > Len(groups) THEN best_idx
    ELSE LET template_tokens == Tokenize(groups[i].template)
             similarity == CalculateSimilarity(tokens, template_tokens)
         IN IF FracGT(similarity, best_similarity)
               /\ FracGE(similarity, SimilarityThreshold)
            THEN BestGroup(groups, tokens, i + 1, i, similarity)
            ELSE BestGroup(groups, tokens, i + 1, best_idx, best_similarity)

\* mutant of lines 131-141: the wildcard child is tried before the exact one
RECURSIVE FindBestMatchWildFirst(_, _, _, _, _)
FindBestMatchWildFirst(tr, max_depth, tokens, path, depth) ==
    IF depth >= max_depth \/ Len(tokens) = 0
    THEN LET idx == BestGroup(tr[path].log_groups, tokens, 1, 0, <<0, 1>>)
         IN IF idx = 0 THEN NoMatch ELSE [node |-> path, idx |-> idx]
    ELSE LET current_token == tokens[1]
             wild == IF Append(path, WILD) \in DOMAIN tr
                     THEN FindBestMatchWildFirst(tr, max_depth, Tail(tokens),
                                                 Append(path, WILD), depth + 1)
                     ELSE NoMatch
         IN IF wild # NoMatch THEN wild
            ELSE IF Append(path, current_token) \in DOMAIN tr
            THEN FindBestMatchWildFirst(tr, max_depth, Tail(tokens),
                                        Append(path, current_token), depth + 1)
            ELSE NoMatch

\* DrainParser._find_best_match
RECURSIVE FindBestMatch(_, _, _, _, _)
FindBestMatch(tr, max_depth, tokens, path, depth) ==
    IF depth >= max_depth \/ Len(tokens) = 0
    THEN LET idx == BestGroup(tr[path].log_groups, tokens, 1, 0, <<0, 1>>)
         IN IF idx = 0 THEN NoMatch ELSE [node |-> path, idx |-> idx]
    ELSE LET current_token == tokens[1]
             exact == IF Append(path, current_token) \in DOMAIN tr
                      THEN FindBestMatch(tr, max_depth, Tail(tokens),
                                         Append(path, current_token), depth + 1)
                      ELSE NoMatch
         IN IF exact # NoMatch THEN exact
            ELSE IF Append(path, WILD) \in DOMAIN tr
            THEN FindBestMatch(tr, max_depth, Tail(tokens),
                               Append(path, WILD), depth + 1)
            ELSE NoMatch

\* DrainNode.add_log_group
AddLogGroup(groups, log_id, log_line, template) ==
    IF \E i \in 1..Len(groups) : groups[i].template = template
    THEN LET i == CHOOSE j \in 1..Len(groups) :
                    /\ groups[j].template = template
                    /\ \A k \in 1..(j - 1) : groups[k].template # template
         IN [groups EXCEPT ![i].log_ids = Append(@, log_id),
                           ![i].frequency = @ + 1]
    ELSE Append(groups, [template |-> template, log_ids |-> <<log_id>>,
                         frequency |-> 1, example |-> log_line])

\* mutant of line 158: the wildcard is used only above max_child children
RECURSIVE AddToTreeAboveCap(_, _, _, _, _, _, _, _)
AddToTreeAboveCap(tr, c, log_id, log_line, template, tokens, path, depth) ==
    IF depth >= c.depth \/ Len(tokens) = 0
    THEN [tr EXCEPT ![path].log_groups = AddLogGroup(@, log_id, log_line, template)]
    ELSE LET current_token ==
                 IF Cardinality(Children(tr, path)) > c.max_child
                 THEN WILD ELSE tokens[1]
             child == Append(path, current_token)
             tr1 == IF child \in DOMAIN tr THEN tr
                    ELSE (child :> NewNode(depth + 1, current_token)) @@ tr
         IN AddToTreeAboveCap(tr1, c, log_id, log_line, template, Tail(tokens),
                              child, depth + 1)

\* mutant of line 132: the child of the first token is created when the
\* lookup does not find it
FindBestMatchCallCreating(tr, c, tokens) ==
    [tree |-> IF tokens = <<>> \/ c.depth = 0 \/ <<tokens[1]>> \in DOMAIN tr THEN tr
              ELSE (<<tokens[1]>> :> NewNode(1, tokens[1])) @@ tr,
     match |-> FindBestMatch(tr, c.depth, tokens, <<>>, 0)]

\* one call of _find_best_match(tokens, self.root, 0): the tree after it and
\* what it returns.  The method assigns to locals only.
FindBestMatchCall(tr, c, tokens) ==
    [tree |-> tr, match |-> FindBestMatch(tr, c.depth, tokens, <<>>, 0)]

\* mutant of line 150: the descent stops one level below self.depth
RECURSIVE AddToTreeDeeper(_, _, _, _, _, _, _, _)
AddToTreeDeeper(tr, c, log_id, log_line, template, tokens, path, depth) ==
    IF depth > c.depth \/ Len(tokens) = 0
    THEN [tr EXCEPT ![path].log_groups = AddLogGroup(@, log_id, log_line, template)]
    ELSE LET current_token ==
                 IF Cardinality(Children(tr, path)) >= c.max_child
                 THEN WILD ELSE tokens[1]
             child == Append(path, current_token)
             tr1 == IF child \in DOMAIN tr THEN tr
                    ELSE (child :> NewNode(depth + 1, current_token)) @@ tr
         IN AddToTreeDeeper(tr1, c, log_id, log_line, template, Tail(tokens),
                            child, depth + 1)

\* DrainParser._add_to_tree
RECURSIVE AddToTree(_, _, _, _, _, _, _, _)
AddToTree(tr, c, log_id, log_line, template, tokens, path, depth) ==
    IF depth >= c.depth \/ Len(tokens) = 0
    THEN [tr EXCEPT ![path].log_groups = AddLogGroup(@, log_id, log_line, template)]
    ELSE LET current_token ==
                 IF Cardinality(Children(tr, path)) >= c.max_child
                 THEN WILD ELSE tokens[1]
             child == Append(path, current_token)
             tr1 == IF child \in DOMAIN tr THEN tr
                    ELSE (child :> NewNode(depth + 1, current_token)) @@ tr
         IN AddToTree(tr1, c, log_id, log_line, template, Tail(tokens),
                      child, depth + 1)

(***************************************************************************)
(* DrainParser._get_or_create_template_id.  ok = FALSE is a database error *)
(* inside the try block (lines 243-265): nothing is committed, the error   *)
(* is printed and the dummy id 0 comes back.                               *)
(***************************************************************************)
RowOf(tbl, template_pattern) ==
    {i \in 1..Len(tbl) : tbl[i].template_pattern = template_pattern}

\* mutants of _get_or_create_template_id: the SELECT is skipped and every
\* call inserts; the UPDATE of the frequency is dropped
GetOrCreateTemplateIdAlwaysInsert(tbl, template_pattern, ok) ==
    [templates |-> Append(tbl, [template_pattern |-> template_pattern,
                                frequency |-> 1]),
     template_id |-> Len(tbl) + 1, printed |-> FALSE]

GetOrCreateTemplateIdNoUpdate(tbl, template_pattern, ok) ==
    IF ~ok THEN [templates |-> tbl, template_id |-> 0, printed |-> TRUE]
    ELSE IF RowOf(tbl, template_pattern) # {}
    THEN [templates |-> tbl,
          template_id |-> CHOOSE i \in RowOf(tbl, template_pattern) : TRUE,
          printed |-> FALSE]
    ELSE [templates |-> Append(tbl, [template_pattern |-> template_pattern,
                                     frequency |-> 1]),
          template_id |-> Len(tbl) + 1, printed |-> FALSE]

GetOrCreateTemplateId(tbl, template_pattern, ok) ==
    IF ~ok THEN [templates |-> tbl, template_id |-> 0, printed |-> TRUE]
    ELSE IF RowOf(tbl, template_pattern) # {}
    THEN LET template_id == CHOOSE i \in RowOf(tbl, template_pattern) : TRUE
         IN [templates |-> [tbl EXCEPT ![template_id].frequency = @ + 1],
             template_id |-> template_id, printed |-> FALSE]
    ELSE [templates |-> Append(tbl, [template_pattern |-> template_pattern,
                                     frequency |-> 1]),
          template_id |-> Len(tbl) + 1, printed |-> FALSE]

\* DrainParser.get_template_statistics
RECURSIVE SumFrequency(_)
SumFrequency(tbl) ==
    IF tbl = <<>> THEN 0 ELSE tbl[1].frequency + SumFrequency(Tail(tbl))

GetTemplateStatistics(tbl, c) ==
    [total_templates |-> Len(tbl), total_logs_parsed |-> SumFrequency(tbl),
     tree_depth |-> c.depth, similarity_threshold |-> SimilarityThreshold]

(***************************************************************************)
(* DrainParser.parse                                                       *)
(***************************************************************************)
\* the prefix length a literal token is cut to in a new template
PrefixLen == 8
Placeholders == {NUM, IP, HEX, PATH}

TemplateToken(token) ==
    IF token \in Placeholders THEN token
    ELSE IF Len(token) > PrefixLen THEN Prefix(token, PrefixLen) ELSE token

NewTemplate(tokens) == JoinSp([i \in 1..Len(tokens) |-> TemplateToken(tokens[i])])

\* log_id = None
NoId == -1

\* mutant of lines 209-217: a new template whose catalog write failed is
\* kept out of the tree and of the cache
ParseRollingBack(c, tr, cache, tbl, log_line, log_id, ok) ==
    IF log_line \in DOMAIN cache
    THEN LET template == cache[log_line]
             r == GetOrCreateTemplateId(tbl, template, ok)
         IN [tree |-> tr, template_cache |-> cache, templates |-> r.templates,
             template |-> template, template_id |-> r.template_id,
             printed |-> r.printed,
             branch |-> "cache"]
    ELSE LET tokens == Tokenize(log_line)
             best_match == FindBestMatch(tr, c.depth, tokens, <<>>, 0)
         IN IF best_match # NoMatch
            THEN LET template == tr[best_match.node].log_groups[best_match.idx].template
                     r == GetOrCreateTemplateId(tbl, template, ok)
                 IN [tree |-> tr,
                     template_cache |-> (log_line :> template) @@ cache,
                     templates |-> r.templates,
                     template |-> template, template_id |-> r.template_id,
             printed |-> r.printed,
                     branch |-> "match"]
            ELSE LET template == NewTemplate(tokens)
                     r == GetOrCreateTemplateId(tbl, template, ok)
                     id == IF log_id = NoId THEN 0 ELSE log_id
                 IN [tree |-> IF ok
                              THEN AddToTree(tr, c, id, log_line, template,
                                             tokens, <<>>, 0)
                              ELSE tr,
                     template_cache |-> IF ok THEN (log_line :> template) @@ cache
                                        ELSE cache,
                     templates |-> r.templates,
                     template |-> template, template_id |-> r.template_id,
             printed |-> r.printed,
                     branch |-> "new"]

\* the parser state after parse(log_line, log_id), with what it returns and
\* the branch it took
Parse(c, tr, cache, tbl, log_line, log_id, ok) ==
    IF log_line \in DOMAIN cache
    THEN LET template == cache[log_line]
             r == GetOrCreateTemplateId(tbl, template, ok)
         IN [tree |-> tr, template_cache |-> cache, templates |-> r.templates,
             template |-> template, template_id |-> r.template_id,
             printed |-> r.printed,
             branch |-> "cache"]
    ELSE LET tokens == Tokenize(log_line)
             best_match == FindBestMatch(tr, c.depth, tokens, <<>>, 0)
         IN IF best_match # NoMatch
            THEN LET template == tr[best_match.node].log_groups[best_match.idx].template
                     r == GetOrCreateTemplateId(tbl, template, ok)
                 IN [tree |-> tr,
                     template_cache |-> (log_line :> template) @@ cache,
                     templates |-> r.templates,
                     template |-> template, template_id |-> r.template_id,
             printed |-> r.printed,
                     branch |-> "match"]
            ELSE LET template == NewTemplate(tokens)
                     r == GetOrCreateTemplateId(tbl, template, ok)
                     id == IF log_id = NoId THEN 0 ELSE log_id
                 IN [tree |-> AddToTree(tr, c, id, log_line, template, tokens,
                                        <<>>, 0),
                     template_cache |-> (log_line :> template) @@ cache,
                     templates |-> r.templates,
                     template |-> template, template_id |-> r.template_id,
             printed |-> r.printed,
                     branch |-> "new"]

(***************************************************************************)
(* The raw lines the parser is fed.                                        *)
(***************************************************************************)
\* "2024-01-01 10:00:00 ERROR: Connection failed to 192.168.1.1:8080"
ScenarioA1 ==
    <<"2", "0", "2", "4", "-", "0", "1", "-", "0", "1", " ", "1", "0", ":",
    "0", "0", ":", "0", "0", " ", "E", "R", "R", "O", "R", ":", " ", "C",
    "o", "n", "n", "e", "c", "t", "i", "o", "n", " ", "f", "a", "i", "l",
    "e", "d", " ", "t", "o", " ", "1", "9", "2", ".", "1", "6", "8", ".",
    "1", ".", "1", ":", "8", "0", "8", "0">>
\* "2024-01-01 10:00:01 ERROR: Connection failed to 192.168.1.2:8080"
ScenarioA2 ==
    <<"2", "0", "2", "4", "-", "0", "1", "-", "0", "1", " ", "1", "0", ":",
    "0", "0", ":", "0", "1", " ", "E", "R", "R", "O", "R", ":", " ", "C",
    "o", "n", "n", "e", "c", "t", "i", "o", "n", " ", "f", "a", "i", "l",
    "e", "d", " ", "t", "o", " ", "1", "9", "2", ".", "1", "6", "8", ".",
    "1", ".", "2", ":", "8", "0", "8", "0">>
\* "Connection refused"
ConnRefused ==
    <<"C", "o", "n", "n", "e", "c", "t", "i", "o", "n", " ", "r", "e", "f",
    "u", "s", "e", "d">>
\* "Connection  refused"
ConnRefusedWide ==
    <<"C", "o", "n", "n", "e", "c", "t", "i", "o", "n", " ", " ", "r", "e",
    "f", "u", "s", "e", "d">>
\* "Connections refused"
ConnsRefused ==
    <<"C", "o", "n", "n", "e", "c", "t", "i", "o", "n", "s", " ", "r", "e",
    "f", "u", "s", "e", "d">>
\* "disk 5 full sda"
Disk5 ==
    <<"d", "i", "s", "k", " ", "5", " ", "f", "u", "l", "l", " ", "s",
    "d", "a">>
\* "disk 7 full sdb"
Disk7 ==
    <<"d", "i", "s", "k", " ", "7", " ", "f", "u", "l", "l", " ", "s",
    "d", "b">>
\* " "
Blank ==
    <<" ">>

ParserLines ==
    {ScenarioA1, ScenarioA2, ConnRefused, ConnRefusedWide, ConnsRefused,
     Disk5, Disk7, Blank}

(***************************************************************************)
(* The parser and its catalog as a state machine.                          *)
(***************************************************************************)
\* DrainParser.__init__: the defaults, and a small tree
DefaultDepth == 4
DefaultMaxChild == 100
\* with_ids: the caller passes log ids (the module's own demonstration,
\* line 316) or leaves log_id at None (log_ingestion.py, line 159)
ParserConfigs ==
    {[depth |-> d[1], max_child |-> d[2], with_ids |-> w] :
        d \in {<<DefaultDepth, DefaultMaxChild>>, <<2, 2>>}, w \in BOOLEAN}

EmptyTree == (<<>> :> NewNode(0, NoToken))

\* the frequency the catalog holds for a pattern, 0 when it has no row
FrequencyOf(tbl, template_pattern) ==
    IF RowOf(tbl, template_pattern) = {} THEN 0
    ELSE tbl[CHOOSE i \in RowOf(tbl, template_pattern) : TRUE].frequency

InitParser ==
    /\ cfg \in ParserConfigs
    /\ tree = EmptyTree
    /\ template_cache = <<>>
    /\ templates = <<>>
    /\ calls = <<>>
    /\ restarts = 0

InitDb ==
    /\ logs = <<>>
    /\ lexical_index = <<>>
    /\ incidents = <<>>
    /\ now = 0

NoCall == [called |-> FALSE]

\* no producer is inside parse, no LogIngestion is started, nothing has been
\* called alone
NoLine == [log_line |-> <<>>, parse_raises |-> FALSE, store_raises |-> FALSE]

\* LogIngestion.__init__: not running, no worker thread
IdleWorker == [running |-> FALSE, alive |-> FALSE, processed |-> 0, last |-> NoLine]

\* approval_gate.load_config when config.json is missing
DefaultConfig == [requires_approval |-> {"RESTART_APACHE"}, dry_run_mode |-> TRUE]

\* no config.json, and nothing executed or audited yet
InitMcp ==
    /\ config = DefaultConfig
    /\ actions = <<>>
    /\ audit = <<>>

InitOther ==
    /\ threads = <<>>
    /\ worker = IdleWorker
    /\ out = NoCall
    /\ InitMcp

Init == InitParser /\ InitDb /\ rag = NoCall /\ InitOther

\* one call of parse(log_line, log_id) on the live parser
ParseCall(log_line, log_id, ok) ==
    LET r == Parse(cfg, tree, template_cache, templates, log_line, log_id, ok)
    IN /\ Len(calls) < MaxParses
       /\ tree' = r.tree
       /\ template_cache' = r.template_cache
       /\ templates' = r.templates
       /\ calls' = Append(calls,
              [log_line |-> log_line, log_id |-> log_id, ok |-> ok,
               template |-> r.template, template_id |-> r.template_id,
               printed |-> r.printed,
               branch |-> r.branch, restarts |-> restarts,
               rows_before |-> Len(templates),
               rows_after |-> Len(r.templates),
               frequency_before |-> FrequencyOf(templates, r.template),
               frequency_after |-> FrequencyOf(r.templates, r.template)])
       /\ UNCHANGED <<cfg, restarts, logs, lexical_index, incidents, now, rag>>
       /\ UNCHANGED otherVars

\* a new process: parse_log_entry builds a fresh DrainParser over the
\* catalog the database file already holds
NewParser ==
    /\ restarts < MaxRestarts
    /\ tree # EmptyTree
    /\ restarts' = restarts + 1
    /\ tree' = EmptyTree
    /\ template_cache' = <<>>
    /\ UNCHANGED <<cfg, templates, calls, logs, lexical_index, incidents, now, rag>>
    /\ UNCHANGED otherVars

NextParser ==
    \/ \E log_line \in ParserLines :
           ParseCall(log_line, IF cfg.with_ids THEN Len(calls) + 1 ELSE NoId, TRUE)
    \/ NewParser

SpecParser == Init /\ [][NextParser]_vars

(***************************************************************************)
(* The same parser over a catalog whose accesses can fail.                 *)
(***************************************************************************)
CatalogLines == {ConnRefused, ConnsRefused, Disk5, Disk7}

InitCatalog ==
    /\ cfg = [depth |-> DefaultDepth, max_child |-> DefaultMaxChild,
              with_ids |-> FALSE]
    /\ tree = EmptyTree
    /\ template_cache = <<>>
    /\ templates = <<>>
    /\ calls = <<>>
    /\ restarts = 0
    /\ InitDb
    /\ rag = NoCall
    /\ InitOther

NextCatalog ==
    \/ \E log_line \in CatalogLines, ok \in BOOLEAN : ParseCall(log_line, NoId, ok)
    \/ NewParser

SpecCatalog == InitCatalog /\ [][NextCatalog]_vars

(***************************************************************************)
(* Several producers inside parse on the one global parser                 *)
(* (parse_log_entry, lines 296-299): the code takes no lock, so a thread   *)
(* can be suspended between the steps below, and is while it waits for the *)
(* database.  Each statement of _get_or_create_template_id is atomic in    *)
(* SQLite; the INSERT of a pattern that another connection has committed   *)
(* since the SELECT violates UNIQUE(template_pattern) and raises inside    *)
(* the try block.                                                          *)
(***************************************************************************)
Producers == 2

ConcurrentLines == {ConnRefused, ConnsRefused, Disk5}

IdleThread ==
    [pc |-> "idle", log_line |-> <<>>, template |-> <<>>, branch |-> "none",
     row |-> 0, template_id |-> NoId, printed |-> FALSE]

InitConcurrent ==
    /\ cfg = [depth |-> DefaultDepth, max_child |-> DefaultMaxChild,
              with_ids |-> FALSE]
    /\ tree = EmptyTree
    /\ template_cache = <<>>
    /\ templates = <<>>
    /\ calls = <<>>
    /\ restarts = 0
    /\ InitDb
    /\ rag = NoCall
    /\ threads = [t \in 1..Producers |-> IdleThread]
    /\ worker = IdleWorker
    /\ out = NoCall
    /\ InitMcp

\* one parse made before the producers overlap
FirstParse(log_line) ==
    /\ calls = <<>>
    /\ \A t \in 1..Len(threads) : threads[t].pc = "idle"
    /\ ParseCall(log_line, NoId, TRUE)

\* parse, lines 181-208: the cache test, and on a miss the search of the tree
\* and the choice of the template
ParseSearch(t, log_line) ==
    LET tokens == Tokenize(log_line)
        best_match == FindBestMatch(tree, cfg.depth, tokens, <<>>, 0)
        branch == IF log_line \in DOMAIN template_cache THEN "cache"
                  ELSE IF best_match # NoMatch THEN "match" ELSE "new"
        template ==
            IF branch = "cache" THEN template_cache[log_line]
            ELSE IF branch = "match"
            THEN tree[best_match.node].log_groups[best_match.idx].template
            ELSE NewTemplate(tokens)
    IN /\ threads[t].pc = "idle"
       /\ threads' = [threads EXCEPT ![t] =
              [IdleThread EXCEPT !.pc = "select", !.log_line = log_line,
                                 !.template = template, !.branch = branch]]
       /\ UNCHANGED <<parserVars, dbVars, rag, worker, out, mcpVars>>

\* _get_or_create_template_id, lines 244-246: the SELECT
CatalogSelect(t) ==
    LET found == RowOf(templates, threads[t].template)
    IN /\ threads[t].pc = "select"
       /\ threads' = [threads EXCEPT
              ![t].pc = "write",
              ![t].row = IF found = {} THEN 0 ELSE CHOOSE i \in found : TRUE]
       /\ UNCHANGED <<parserVars, dbVars, rag, worker, out, mcpVars>>

\* _get_or_create_template_id, lines 248-265: the UPDATE of the row found, or
\* the INSERT, and the commit
CatalogWrite(t) ==
    LET th == threads[t]
    IN /\ th.pc = "write"
       /\ IF th.row # 0
          THEN /\ templates' = [templates EXCEPT ![th.row].frequency = @ + 1]
               /\ threads' = [threads EXCEPT ![t].pc = "mutate",
                                             ![t].template_id = th.row]
          ELSE IF RowOf(templates, th.template) # {}
          THEN /\ templates' = templates
               /\ threads' = [threads EXCEPT ![t].pc = "mutate",
                                             ![t].template_id = 0,
                                             ![t].printed = TRUE]
          ELSE /\ templates' = Append(templates,
                       [template_pattern |-> th.template, frequency |-> 1])
               /\ threads' = [threads EXCEPT ![t].pc = "mutate",
                                             ![t].template_id = Len(templates) + 1]
       /\ UNCHANGED <<cfg, tree, template_cache, calls, restarts, dbVars, rag,
                      worker, out, mcpVars>>

\* parse, line 184, lines 195-196 or lines 212-219: the writes to the cache
\* and to the tree, and the return
ParseFinish(t) ==
    LET th == threads[t]
    IN /\ th.pc = "mutate"
       /\ tree' = IF th.branch = "new"
                  THEN AddToTree(tree, cfg, 0, th.log_line, th.template,
                                 Tokenize(th.log_line), <<>>, 0)
                  ELSE tree
       /\ template_cache' = IF th.branch = "cache" THEN template_cache
                            ELSE (th.log_line :> th.template) @@ template_cache
       /\ threads' = [threads EXCEPT ![t].pc = "done"]
       /\ UNCHANGED <<cfg, templates, calls, restarts, dbVars, rag, worker, out,
                 mcpVars>>

NextConcurrent ==
    \/ \E log_line \in ConcurrentLines : FirstParse(log_line)
    \/ \E t \in 1..Producers, log_line \in ConcurrentLines : ParseSearch(t, log_line)
    \/ \E t \in 1..Producers : CatalogSelect(t)
    \/ \E t \in 1..Producers : CatalogWrite(t)
    \/ \E t \in 1..Producers : ParseFinish(t)

SpecConcurrent == InitConcurrent /\ [][NextConcurrent]_vars

(***************************************************************************)
(* The tree under inserts and lookups: a parser of depth 2 whose nodes     *)
(* take 2 children, fed lines of one-letter tokens.  A leaf compares the   *)
(* tokens left after the descent with the whole template, so only a line   *)
(* of at least 4 tokens can match a template of its own tokens here.       *)
(***************************************************************************)
MaxInserts == 4

TreeLines ==
    {<<"a", " ", "x">>, <<"b", " ", "x">>, <<"c", " ", "x">>,
     <<"d", " ", "y">>, <<"c", " ", "z">>,
     <<"c", " ", "x", " ", "w", " ", "v">>}

InitTree ==
    /\ cfg = [depth |-> 2, max_child |-> 2, with_ids |-> FALSE]
    /\ tree = EmptyTree
    /\ template_cache = <<>>
    /\ templates = <<>>
    /\ calls = <<>>
    /\ restarts = 0
    /\ InitDb
    /\ rag = NoCall
    /\ InitOther

\* parse(log_line) on the live parser, as log_ingestion calls it
TreeInsert(log_line) ==
    LET r == Parse(cfg, tree, template_cache, templates, log_line, NoId, TRUE)
    IN /\ out = NoCall
       /\ Len(calls) < MaxInserts
       /\ tree' = r.tree
       /\ template_cache' = r.template_cache
       /\ templates' = r.templates
       /\ calls' = Append(calls, [log_line |-> log_line, branch |-> r.branch])
       /\ UNCHANGED <<cfg, restarts, dbVars, rag, otherVars>>

\* _find_best_match(tokens, self.root, 0) called alone; out holds what it was
\* given and what it returned until the caller drops it
Lookup(tokens) ==
    LET r == FindBestMatchCall(tree, cfg, tokens)
    IN /\ out = NoCall
       /\ tree' = r.tree
       /\ out' = [called |-> TRUE, op |-> "lookup", tokens |-> tokens,
                  match |-> r.match]
       /\ UNCHANGED <<cfg, template_cache, templates, calls, restarts, dbVars,
                      rag, threads, worker, mcpVars>>

DropOut ==
    /\ out # NoCall
    /\ out' = NoCall
    /\ UNCHANGED <<parserVars, dbVars, rag, threads, worker, mcpVars>>

NextTree ==
    \/ \E log_line \in TreeLines : TreeInsert(log_line)
    \/ \E log_line \in TreeLines : Lookup(Tokenize(log_line))
    \/ DropOut

SpecTree == InitTree /\ [][NextTree]_vars

(***************************************************************************)
(* src/database.py.  A timestamp is a number of hours; isoformat strings   *)
(* of one length compare as the instants they denote.  The NULL of the     *)
(* column template_id is Null, the NULL of embedding_vector is <<>> (the   *)
(* scan skips NULL and empty bytes alike).  is_anomaly is left out: no     *)
(* query reads it.                                                         *)
(***************************************************************************)
Null == -1

WordChars == Letters \cup Digits \cup {"_"}

Lower(c) ==
    IF \E i \in 1..Len(UpperCase) : UpperCase[i] = c
    THEN LowerCase[CHOOSE i \in 1..Len(UpperCase) : UpperCase[i] = c]
    ELSE c

\* str.lower()
LowerText(s) == [i \in 1..Len(s) |-> Lower(s[i])]

\* the number of leading characters of s that are (w = TRUE) or are not
\* (w = FALSE) word characters
RECURSIVE WordRun(_, _)
WordRun(s, w) ==
    IF s = <<>> \/ ((s[1] \in WordChars) # w) THEN 0
    ELSE 1 + WordRun(Tail(s), w)

\* re.findall(r'\b[a-zA-Z]{3,}\b', s): the maximal runs of word characters
\* that are letters only and at least MinKeywordLen long, in order
MinKeywordLen == 3
RECURSIVE FindWords(_)
FindWords(s) ==
    LET r == Suffix(s, WordRun(s, FALSE))
        n == WordRun(r, TRUE)
        word == Prefix(r, n)
        rest == FindWords(Suffix(r, n))
    IN IF r = <<>> THEN <<>>
       ELSE IF n >= MinKeywordLen /\ \A i \in 1..n : word[i] \in Letters
       THEN <<word>> \o rest
       ELSE rest

StopWords ==
    {<<"t", "h", "e">>, <<"a", "n", "d">>, <<"f", "o", "r">>,
     <<"a", "r", "e">>, <<"b", "u", "t">>, <<"n", "o", "t">>,
     <<"y", "o", "u">>, <<"a", "l", "l">>, <<"c", "a", "n">>,
     <<"h", "e", "r">>, <<"w", "a", "s">>, <<"o", "n", "e">>,
     <<"o", "u", "r">>, <<"o", "u", "t">>, <<"d", "a", "y">>,
     <<"g", "e", "t">>, <<"h", "a", "s">>, <<"h", "i", "m">>,
     <<"h", "i", "s">>, <<"h", "o", "w">>, <<"i", "t", "s">>,
     <<"m", "a", "y">>, <<"n", "e", "w">>, <<"n", "o", "w">>,
     <<"o", "l", "d">>, <<"s", "e", "e">>, <<"t", "w", "o">>,
     <<"w", "h", "o">>, <<"w", "a", "y">>, <<"u", "s", "e">>,
     <<"s", "h", "e">>}

\* [w for w in words if w not in stop_words]
RECURSIVE DropStopWords(_)
DropStopWords(words) ==
    IF words = <<>> THEN <<>>
    ELSE IF words[1] \in StopWords THEN DropStopWords(Tail(words))
    ELSE <<words[1]>> \o DropStopWords(Tail(words))

\* the keywords store_log_entry indexes for a line
KeywordsPerLog == 20
IndexKeywords(log_line) ==
    Prefix(DropStopWords(FindWords(LowerText(log_line))), KeywordsPerLog)

\* store_log_entry: the tables after the INSERTs, and the log_id returned
StoreLogEntry(tbl, idx, clock, log_line, template_id, embedding_vector) ==
    LET log_id == Len(tbl) + 1
        keywords == IndexKeywords(log_line)
    IN [logs |-> Append(tbl, [timestamp |-> clock, log_line |-> log_line,
                              template_id |-> template_id,
                              embedding_vector |-> embedding_vector]),
        lexical_index |-> idx \o [p \in 1..Len(keywords) |->
                                     [log_id |-> log_id, keyword |-> keywords[p],
                                      position |-> p - 1]],
        log_id |-> log_id]

\* SQLite's LIKE: % is any run of characters, _ any one character, ASCII
\* letters match without regard to case
RECURSIVE Like(_, _)
Like(s, pattern) ==
    IF pattern = <<>> THEN s = <<>>
    ELSE IF pattern[1] = "%"
    THEN Like(s, Tail(pattern)) \/ (s # <<>> /\ Like(Tail(s), pattern))
    ELSE /\ s # <<>>
         /\ pattern[1] = "_" \/ Lower(pattern[1]) = Lower(s[1])
         /\ Like(Tail(s), Tail(pattern))

\* re.match(r'^\w+$', pattern); $ also matches before a final newline
IsSingleWord(pattern) ==
    LET body == IF pattern # <<>> /\ pattern[Len(pattern)] = "\n"
                THEN Prefix(pattern, Len(pattern) - 1) ELSE pattern
    IN body # <<>> /\ \A i \in 1..Len(body) : body[i] \in WordChars

\* the log_ids of ids, most recent timestamp first (ORDER BY timestamp DESC)
RECURSIVE ByTimestampDesc(_, _)
ByTimestampDesc(tbl, ids) ==
    IF ids = {} THEN <<>>
    ELSE LET first == CHOOSE i \in ids :
                 \A j \in ids : \/ tbl[i].timestamp > tbl[j].timestamp
                                \/ tbl[i].timestamp = tbl[j].timestamp /\ i <= j
         IN <<first>> \o ByTimestampDesc(tbl, ids \ {first})

\* the log_ids of ids in rowid order (a SELECT without ORDER BY)
RECURSIVE ByRowId(_)
ByRowId(ids) ==
    IF ids = {} THEN <<>>
    ELSE LET first == CHOOSE i \in ids : \A j \in ids : i <= j
         IN <<first>> \o ByRowId(ids \ {first})

\* LIMIT 100 of the searches and of the embedding scan
RowLimit == 100

\* mutant of lines 275-281: a single-word pattern is looked for in log_line
SearchLogsByPatternRawOnly(tbl, idx, clock, pattern, hours) ==
    LET cutoff == clock - hours
        hits == {i \in 1..Len(tbl) :
                    /\ tbl[i].timestamp >= cutoff
                    /\ Like(tbl[i].log_line, <<"%">> \o pattern \o <<"%">>)}
    IN Prefix(ByTimestampDesc(tbl, hits), RowLimit)

\* search_logs_by_pattern: the log_ids of the rows returned, in order
SearchLogsByPattern(tbl, idx, clock, pattern, hours) ==
    LET cutoff == clock - hours
        hits ==
            IF IsSingleWord(pattern)
            THEN {i \in 1..Len(tbl) :
                    /\ tbl[i].timestamp >= cutoff
                    /\ \E e \in 1..Len(idx) :
                           /\ idx[e].log_id = i
                           /\ Like(idx[e].keyword,
                                   <<"%">> \o LowerText(pattern) \o <<"%">>)}
            ELSE {i \in 1..Len(tbl) :
                    /\ tbl[i].timestamp >= cutoff
                    /\ Like(tbl[i].log_line, <<"%">> \o pattern \o <<"%">>)}
    IN Prefix(ByTimestampDesc(tbl, hits), RowLimit)

\* get_logs_by_template_id: the log_ids of the rows returned, in order
GetLogsByTemplateId(tbl, clock, template_id, hours) ==
    LET cutoff == clock - hours
    IN ByTimestampDesc(tbl, {i \in 1..Len(tbl) :
                                /\ tbl[i].timestamp >= cutoff
                                /\ template_id # Null
                                /\ tbl[i].template_id = template_id})

(***************************************************************************)
(* src/rag_framework.py.  A score x is kept as the exact fraction          *)
(* <<n, d>> = sign(x) * x^2, which orders scores as x does: 0.9 is         *)
(* <<81, 100>>, 0.5 is <<25, 100>>, and the cosine dot/(norm1 * norm2) is  *)
(* <<sign(dot) * dot^2, norm1^2 * norm2^2>>.  Floating-point rounding is   *)
(* not modelled.                                                           *)
(***************************************************************************)
TemplateScore == <<81, 100>>
KeywordScore == <<25, 100>>
NoEmbedding == <<>>

RECURSIVE Dot(_, _)
Dot(vec1, vec2) ==
    IF vec1 = <<>> THEN 0 ELSE vec1[1] * vec2[1] + Dot(Tail(vec1), Tail(vec2))

\* RAGRetriever._cosine_similarity
CosineSimilarity(vec1, vec2) ==
    LET dot_product == Dot(vec1, vec2)
        norm1sq == Dot(vec1, vec1)
        norm2sq == Dot(vec2, vec2)
    IN IF norm1sq = 0 \/ norm2sq = 0 THEN <<0, 1>>
       ELSE <<(IF dot_product < 0 THEN -1 ELSE 1) * dot_product * dot_product,
              norm1sq * norm2sq>>

\* RAGRetriever._embed_text: None without an embedder, else what
\* embedder.encode gives (None when it raises)
EmbedText(embedder, encoded) == IF ~embedder THEN NoEmbedding ELSE encoded

\* sorted(..., key=similarity, reverse=True): stable, so entries of equal
\* score keep their order
RECURSIVE InsertByScore(_, _)
InsertByScore(sorted, e) ==
    IF sorted = <<>> THEN <<e>>
    ELSE IF FracGT(e.similarity, sorted[1].similarity) THEN <<e>> \o sorted
    ELSE <<sorted[1]>> \o InsertByScore(Tail(sorted), e)

RECURSIVE SortByScoreDesc(_)
SortByScoreDesc(entries) ==
    IF entries = <<>> THEN <<>>
    ELSE InsertByScore(SortByScoreDesc(Prefix(entries, Len(entries) - 1)),
                       entries[Len(entries)])

Entry(tbl, log_id, similarity, retrieval_method) ==
    [log_id |-> log_id, timestamp |-> tbl[log_id].timestamp,
     similarity |-> similarity, retrieval_method |-> retrieval_method]

\* step 1 (lines 99-111): the rows of the source incident's template.  The
\* join with LIMIT 1 gives the first log row, in rowid order, whose text is
\* the incident's.
TemplateLogs(tbl, inc, clock, incident_id, hours) ==
    LET joined == {i \in 1..Len(tbl) :
                     /\ incident_id \in 1..Len(inc)
                     /\ tbl[i].log_line = inc[incident_id].log_line}
    IN IF incident_id = 0 \/ joined = {} THEN <<>>
       ELSE GetLogsByTemplateId(tbl, clock,
                tbl[CHOOSE i \in joined : \A j \in joined : i <= j].template_id,
                hours)

\* mutant of step 2: the scan runs on whatever the encoder holds, with no
\* test of self.embedder
SemanticLogsUngated(tbl, clock, hours, top_k, embedder, encoded) ==
    LET cutoff == clock - hours
        rows == Prefix(ByRowId({i \in 1..Len(tbl) :
                                   /\ tbl[i].timestamp >= cutoff
                                   /\ tbl[i].embedding_vector # NoEmbedding}),
                       RowLimit)
        decoded == {i \in Range(rows) :
                       Len(tbl[i].embedding_vector) = Len(encoded)}
        results == [k \in 1..Cardinality(decoded) |->
                       LET i == ByRowId(decoded)[k]
                       IN Entry(tbl, i,
                                CosineSimilarity(encoded, tbl[i].embedding_vector),
                                "semantic")]
    IN IF encoded = NoEmbedding THEN [scanned |-> FALSE, logs |-> <<>>]
       ELSE [scanned |-> TRUE, logs |-> Prefix(SortByScoreDesc(results), top_k)]

\* step 2 (lines 113-150): scanned tells whether the SELECT of the stored
\* embeddings ran.  A stored vector of another length than the query's
\* makes np.dot raise, and the row is skipped.
SemanticLogs(tbl, clock, hours, top_k, embedder, encoded) ==
    LET query_embedding == EmbedText(embedder, encoded)
        cutoff == clock - hours
        rows == Prefix(ByRowId({i \in 1..Len(tbl) :
                                   /\ tbl[i].timestamp >= cutoff
                                   /\ tbl[i].embedding_vector # NoEmbedding}),
                       RowLimit)
        decoded == {i \in Range(rows) :
                       Len(tbl[i].embedding_vector) = Len(query_embedding)}
        results == [k \in 1..Cardinality(decoded) |->
                       LET i == ByRowId(decoded)[k]
                       IN Entry(tbl, i,
                                CosineSimilarity(query_embedding,
                                                 tbl[i].embedding_vector),
                                "semantic")]
    IN IF ~embedder \/ query_embedding = NoEmbedding
       THEN [scanned |-> FALSE, logs |-> <<>>]
       ELSE [scanned |-> TRUE, logs |-> Prefix(SortByScoreDesc(results), top_k)]

\* mutant of the test of line 154: semantic results alone decide
FallbackNeededSemanticOnly(template_logs, semantic_logs) == semantic_logs = <<>>

\* line 154: if not semantic_logs and not template_logs
FallbackNeeded(template_logs, semantic_logs) ==
    semantic_logs = <<>> /\ template_logs = <<>>

\* step 3 (lines 155-160): the keywords searched and the rows found
KeywordsPerQuery == 3
HitsPerKeyword == 5
QueryKeywords(query) == Prefix(FindWords(LowerText(query)), KeywordsPerQuery)

RECURSIVE KeywordLogs(_, _, _, _, _)
KeywordLogs(tbl, idx, clock, keywords, hours) ==
    IF keywords = <<>> THEN <<>>
    ELSE Prefix(SearchLogsByPattern(tbl, idx, clock, keywords[1], hours),
                HitsPerKeyword)
         \o KeywordLogs(tbl, idx, clock, Tail(keywords), hours)

\* all_logs is a dict: an entry keeps the place of its first insertion
InAllLogs(all_logs, log_id) ==
    \E k \in 1..Len(all_logs) : all_logs[k].log_id = log_id
PlaceOf(all_logs, log_id) ==
    CHOOSE k \in 1..Len(all_logs) : all_logs[k].log_id = log_id
Put(all_logs, e) ==
    IF InAllLogs(all_logs, e.log_id)
    THEN [all_logs EXCEPT ![PlaceOf(all_logs, e.log_id)] = e]
    ELSE Append(all_logs, e)

\* lines 166-173
RECURSIVE AddTemplateLogs(_, _, _)
AddTemplateLogs(all_logs, tbl, template_logs) ==
    IF template_logs = <<>> THEN all_logs
    ELSE AddTemplateLogs(
             IF template_logs[1] # 0
             THEN Put(all_logs, Entry(tbl, template_logs[1], TemplateScore,
                                      "template"))
             ELSE all_logs,
             tbl, Tail(template_logs))

\* mutant of lines 178-179: a semantic entry always replaces the entry held
AddSemanticLogAlways(all_logs, log) == Put(all_logs, log)

\* lines 178-179
AddSemanticLog(all_logs, log) ==
    IF ~InAllLogs(all_logs, log.log_id)
       \/ FracGT(log.similarity,
                 all_logs[PlaceOf(all_logs, log.log_id)].similarity)
    THEN Put(all_logs, log)
    ELSE all_logs

\* lines 176-179
RECURSIVE AddSemanticLogs(_, _)
AddSemanticLogs(all_logs, semantic_logs) ==
    IF semantic_logs = <<>> THEN all_logs
    ELSE AddSemanticLogs(AddSemanticLog(all_logs, semantic_logs[1]),
                         Tail(semantic_logs))

\* mutant of line 184: a keyword hit is appended whether or not the entry is
\* already held
RECURSIVE AddKeywordLogsNoDedup(_, _, _)
AddKeywordLogsNoDedup(all_logs, tbl, keyword_logs) ==
    IF keyword_logs = <<>> THEN all_logs
    ELSE AddKeywordLogsNoDedup(
             Append(all_logs, Entry(tbl, keyword_logs[1], KeywordScore,
                                    "keyword")),
             tbl, Tail(keyword_logs))

\* lines 182-189
RECURSIVE AddKeywordLogs(_, _, _)
AddKeywordLogs(all_logs, tbl, keyword_logs) ==
    IF keyword_logs = <<>> THEN all_logs
    ELSE AddKeywordLogs(
             IF keyword_logs[1] # 0 /\ ~InAllLogs(all_logs, keyword_logs[1])
             THEN Put(all_logs, Entry(tbl, keyword_logs[1], KeywordScore,
                                      "keyword"))
             ELSE all_logs,
             tbl, Tail(keyword_logs))

\* RAGRetriever.retrieve_relevant_logs: what it returns (result) and what it
\* did on the way
RetrieveRelevantLogs(tbl, idx, inc, clock, query, incident_id, hours, top_k, embedder, encoded) ==
    LET template_logs == TemplateLogs(tbl, inc, clock, incident_id, hours)
        semantic == SemanticLogs(tbl, clock, hours, top_k, embedder, encoded)
        fallback == FallbackNeeded(template_logs, semantic.logs)
        searched == IF fallback THEN QueryKeywords(query) ELSE <<>>
        keyword_logs == KeywordLogs(tbl, idx, clock, searched, hours)
        all_logs == AddKeywordLogs(
                        AddSemanticLogs(
                            AddTemplateLogs(<<>>, tbl, template_logs),
                            semantic.logs),
                        tbl, keyword_logs)
    IN [called |-> TRUE, query |-> query, incident_id |-> incident_id,
        hours |-> hours, top_k |-> top_k, embedder |-> embedder,
        encoded |-> encoded, cutoff |-> clock - hours,
        template_logs |-> template_logs,
        scanned |-> semantic.scanned, semantic_logs |-> semantic.logs,
        searched |-> searched, keyword_logs |-> keyword_logs,
        all_logs |-> all_logs,
        result |-> Prefix(SortByScoreDesc(all_logs), top_k)]

(***************************************************************************)
(* Ingestion, the incident table and the retriever as a state machine.     *)
(* The logs table is written by log_ingestion._process_log_line alone, so  *)
(* the template id of a row is the one parse returned for its line.        *)
(***************************************************************************)
MaxLogs == 2

\* "timeout"
TimeoutLine ==
    <<"t", "i", "m", "e", "o", "u", "t">>
\* "connection failed"
QueryConnectionFailed ==
    <<"c", "o", "n", "n", "e", "c", "t", "i", "o", "n", " ", "f", "a", "i",
    "l", "e", "d">>
\* "failed timeout error refused"
QueryFourKeywords ==
    <<"f", "a", "i", "l", "e", "d", " ", "t", "i", "m", "e", "o", "u", "t", " ", "e", "r", "r", "o",
    "r", " ", "r", "e", "f", "u", "s", "e", "d">>

IngestedLines == {ScenarioA1, ScenarioA2, TimeoutLine}
Queries == {QueryConnectionFailed, QueryFourKeywords}
Windows == {1, 24}
TopKs == {1, 5}

\* embedder.encode(text): the vector the embedding model gives a text.  The
\* model is outside the repository; these are the values it is taken to
\* give the texts above, all of one length.
Encode(text) ==
    IF text = ScenarioA1 THEN <<3, 1>>
    ELSE IF text = ScenarioA2 THEN <<1, 1>>
    ELSE IF text = TimeoutLine THEN <<-1, 0>>
    ELSE <<1, 0>>

\* RAGRetriever.update_log_embeddings
UpdateLogEmbeddings(tbl, embedder, log_id, log_line) ==
    LET embedding == EmbedText(embedder, Encode(log_line))
    IN IF ~embedder \/ embedding = NoEmbedding THEN tbl
       ELSE [tbl EXCEPT ![log_id].embedding_vector = embedding]

\* log_ingestion._process_log_line with a parser and a store that do not
\* fail: the line is parsed, stored with its keywords, and embedded when
\* the RAGRetriever built for it has an embedder.  The next line is
\* processed an hour later.
ProcessLogLine(log_line, embedder) ==
    LET r == Parse(cfg, tree, template_cache, templates, log_line, NoId, TRUE)
        st == StoreLogEntry(logs, lexical_index, now, log_line, r.template_id,
                            NoEmbedding)
    IN /\ rag = NoCall
       /\ Len(logs) < MaxLogs
       /\ SplitWs(log_line) # <<>>
       /\ tree' = r.tree
       /\ template_cache' = r.template_cache
       /\ templates' = r.templates
       /\ logs' = UpdateLogEmbeddings(st.logs, embedder, st.log_id, log_line)
       /\ lexical_index' = st.lexical_index
       /\ now' = now + 1
       /\ UNCHANGED <<cfg, calls, restarts, incidents, rag>>
       /\ UNCHANGED otherVars

\* database.record_incident; one incident is recorded at most
RecordIncident(log_line) ==
    /\ rag = NoCall
    /\ incidents = <<>>
    /\ incidents' = Append(incidents, [log_line |-> log_line])
    /\ UNCHANGED <<parserVars, logs, lexical_index, now, rag>>
    /\ UNCHANGED otherVars

\* one call of RAGRetriever.retrieve_relevant_logs; rag holds what it did
\* and returned until the caller drops it
Retrieve(query, incident_id, hours, top_k, embedder, encoded) ==
    /\ rag = NoCall
    /\ rag' = RetrieveRelevantLogs(logs, lexical_index, incidents, now, query,
                                   incident_id, hours, top_k, embedder, encoded)
    /\ UNCHANGED <<parserVars, dbVars, otherVars>>

DropResult ==
    /\ rag # NoCall
    /\ rag' = NoCall
    /\ UNCHANGED <<parserVars, dbVars, otherVars>>

InitRAG ==
    /\ cfg = [depth |-> DefaultDepth, max_child |-> DefaultMaxChild,
              with_ids |-> FALSE]
    /\ tree = EmptyTree
    /\ template_cache = <<>>
    /\ templates = <<>>
    /\ calls = <<>>
    /\ restarts = 0
    /\ InitDb
    /\ rag = NoCall
    /\ InitOther

NextRAG ==
    \/ \E log_line \in IngestedLines, embedder \in BOOLEAN :
           ProcessLogLine(log_line, embedder)
    \/ \E log_line \in IngestedLines : RecordIncident(log_line)
    \/ \E query \in Queries, incident_id \in 0..Len(incidents),
          hours \in Windows, top_k \in TopKs, embedder \in BOOLEAN :
           \E encoded \in (IF embedder THEN {Encode(query), NoEmbedding}
                           ELSE {Encode(query)}) :
               Retrieve(query, incident_id, hours, top_k, embedder, encoded)
    \/ DropResult

SpecRAG == InitRAG /\ [][NextRAG]_vars

(***************************************************************************)
(* The ingestion worker (src/log_ingestion.py) over a parser and a store   *)
(* that can raise.  parse raises when sqlite3.connect does (line 225 of    *)
(* drain_parser.py, outside the try block), before it has written          *)
(* anything; store_log_entry raises before its commit.                     *)
(***************************************************************************)
MaxLines == 3

\* mutant of lines 166-180: the exception of store_log_entry is not caught
ProcessLogLineCallUncaught(c, tr, cache, tbl, lg, idx, log_line, clock, parse_raises, store_raises, embedder) ==
    LET r == Parse(c, tr, cache, tbl, log_line, NoId, TRUE)
        template_id == IF parse_raises THEN Null ELSE r.template_id
        st == StoreLogEntry(lg, idx, clock, log_line, template_id, NoEmbedding)
    IN IF log_line = <<>> \/ SplitWs(log_line) = <<>>
       THEN [tree |-> tr, template_cache |-> cache, templates |-> tbl,
             logs |-> lg, lexical_index |-> idx, raised |-> FALSE]
       ELSE [tree |-> IF parse_raises THEN tr ELSE r.tree,
             template_cache |-> IF parse_raises THEN cache ELSE r.template_cache,
             templates |-> IF parse_raises THEN tbl ELSE r.templates,
             logs |-> IF store_raises THEN lg
                      ELSE UpdateLogEmbeddings(st.logs, embedder, st.log_id, log_line),
             lexical_index |-> IF store_raises THEN idx ELSE st.lexical_index,
             raised |-> store_raises]

\* LogIngestion._process_log_line: the parser and the tables after it, and
\* whether an exception left it
ProcessLogLineCall(c, tr, cache, tbl, lg, idx, log_line, clock, parse_raises, store_raises, embedder) ==
    LET r == Parse(c, tr, cache, tbl, log_line, NoId, TRUE)
        template_id == IF parse_raises THEN Null ELSE r.template_id
        st == StoreLogEntry(lg, idx, clock, log_line, template_id, NoEmbedding)
    IN IF log_line = <<>> \/ SplitWs(log_line) = <<>>
       THEN [tree |-> tr, template_cache |-> cache, templates |-> tbl,
             logs |-> lg, lexical_index |-> idx, raised |-> FALSE]
       ELSE [tree |-> IF parse_raises THEN tr ELSE r.tree,
             template_cache |-> IF parse_raises THEN cache ELSE r.template_cache,
             templates |-> IF parse_raises THEN tbl ELSE r.templates,
             logs |-> IF store_raises THEN lg
                      ELSE UpdateLogEmbeddings(st.logs, embedder, st.log_id, log_line),
             lexical_index |-> IF store_raises THEN idx ELSE st.lexical_index,
             raised |-> FALSE]

\* what the source yields: _ingest_file strips each line, so an empty line
\* of the file comes as ""; the other sources can yield blanks
WorkerLines == {<<>>, Blank, TimeoutLine, Disk5}

InitWorker ==
    /\ cfg = [depth |-> DefaultDepth, max_child |-> DefaultMaxChild,
              with_ids |-> FALSE]
    /\ tree = EmptyTree
    /\ template_cache = <<>>
    /\ templates = <<>>
    /\ calls = <<>>
    /\ restarts = 0
    /\ InitDb
    /\ rag = NoCall
    /\ InitOther

\* LogIngestion.start, when no worker thread is left from an earlier start
Start ==
    /\ ~worker.running
    /\ ~worker.alive
    /\ worker' = [worker EXCEPT !.running = TRUE, !.alive = TRUE]
    /\ UNCHANGED <<parserVars, dbVars, rag, threads, out, mcpVars>>

\* LogIngestion.stop: the flag is cleared; the worker sees it at its next line
Stop ==
    /\ worker.running
    /\ worker' = [worker EXCEPT !.running = FALSE]
    /\ UNCHANGED <<parserVars, dbVars, rag, threads, out, mcpVars>>

\* _ingestion_worker, lines 195-199: the source yields a line; the worker
\* leaves the loop when running is cleared and processes the line otherwise.
\* An exception that leaves _process_log_line ends the worker (line 201).
WorkerNext(log_line, parse_raises, store_raises, embedder) ==
    /\ worker.alive
    /\ worker.processed < MaxLines
    /\ IF ~worker.running
       THEN /\ worker' = [worker EXCEPT !.alive = FALSE]
            /\ UNCHANGED <<parserVars, dbVars>>
       ELSE \E r \in {ProcessLogLineCall(cfg, tree, template_cache, templates,
                                          logs, lexical_index, log_line, now,
                                          parse_raises, store_raises, embedder)} :
               /\ worker' = [worker EXCEPT
                      !.alive = ~r.raised,
                      !.processed = @ + 1,
                      !.last = [log_line |-> log_line,
                                parse_raises |-> parse_raises,
                                store_raises |-> store_raises]]
               /\ tree' = r.tree
               /\ template_cache' = r.template_cache
               /\ templates' = r.templates
               /\ logs' = r.logs
               /\ lexical_index' = r.lexical_index
               /\ now' = now + 1
               /\ UNCHANGED <<cfg, calls, restarts, incidents>>
    /\ UNCHANGED <<rag, threads, out, mcpVars>>

\* _ingestion_worker, lines 201-202: the source itself raises, or ends
SourceStops ==
    /\ worker.alive
    /\ worker' = [worker EXCEPT !.alive = FALSE]
    /\ UNCHANGED <<parserVars, dbVars, rag, threads, out, mcpVars>>

NextWorker ==
    \/ Start
    \/ Stop
    \/ \E log_line \in WorkerLines, parse_raises, store_raises, embedder \in BOOLEAN :
           WorkerNext(log_line, parse_raises, store_raises, embedder)
    \/ SourceStops

SpecWorker == InitWorker /\ [][NextWorker]_vars

(***************************************************************************)
(* _tokenize called alone on lines of up to MaxTokens words, laid out with *)
(* and without whitespace around them and with one or two whitespace       *)
(* characters between them.                                                *)
(***************************************************************************)
MaxTokens == 2

TokenWords ==
    {<<"5">>, <<"4", "2">>,
     <<"1", ".", "2", ".", "3", ".", "4">>, <<"1", ".", "2", ".", "3">>,
     <<"1", ".", "2", ".", "3", ".", "4", ".", "5">>,
     <<"1", "0", ".", "0", ".", "0", ".", "1", ":", "8", "0">>,
     <<"0", "x", "1", "F">>, <<"0", "x">>, <<"0", "x", "Z", "Z">>,
     <<"0", "X", "1", "F">>, <<"0", "x", "/">>,
     <<"/", "v", "a", "r">>, <<"a", "\\", "b">>, <<"1", "/", "2">>,
     <<"E", "R", "R", "O", "R", ":">>}

RECURSIVE JoinWith(_, _)
JoinWith(words, sep) ==
    IF words = <<>> THEN <<>>
    ELSE IF Len(words) = 1 THEN words[1]
    ELSE words[1] \o sep \o JoinWith(Tail(words), sep)

TokenLines ==
    {lead \o JoinWith(words, sep) \o trail :
        words \in UNION {[1..n -> TokenWords] : n \in 0..MaxTokens},
        lead \in {<<>>, <<" ">>},
        sep \in {<<" ">>, <<"\t", " ">>},
        trail \in {<<>>, <<"\n">>}}

InitTokenize ==
    /\ cfg = [depth |-> DefaultDepth, max_child |-> DefaultMaxChild,
              with_ids |-> FALSE]
    /\ tree = EmptyTree
    /\ template_cache = <<>>
    /\ templates = <<>>
    /\ calls = <<>>
    /\ restarts = 0
    /\ InitDb
    /\ rag = NoCall
    /\ InitOther

\* one call of DrainParser._tokenize, which reads no field of the parser
TokenizeCall(log_line) ==
    /\ out = NoCall
    /\ out' = [called |-> TRUE, op |-> "tokenize", log_line |-> log_line,
               tokens |-> Tokenize(log_line)]
    /\ UNCHANGED <<parserVars, dbVars, rag, threads, worker, mcpVars>>

NextTokenize ==
    \/ \E log_line \in TokenLines : TokenizeCall(log_line)
    \/ DropOut

SpecTokenize == InitTokenize /\ [][NextTokenize]_vars

(***************************************************************************)
(* search_logs_by_pattern called alone on a store filled by                *)
(* store_log_entry, one entry an hour.                                     *)
(***************************************************************************)
\* "ERROR: disk full sda"
ErrorDiskFull ==
    <<"E", "R", "R", "O", "R", ":", " ", "d", "i", "s", "k", " ", "f", "u",
    "l", "l", " ", "s", "d", "a">>

StoredLines == {ErrorDiskFull, Disk5, TimeoutLine}

\* single words: "disk", "dis_", "ERROR", "5"; others: "disk full",
\* "error: disk", "k%sda"
Patterns ==
    {<<"d", "i", "s", "k">>, <<"d", "i", "s", "_">>,
     <<"E", "R", "R", "O", "R">>, <<"5">>,
     <<"d", "i", "s", "k", " ", "f", "u", "l", "l">>,
     <<"e", "r", "r", "o", "r", ":", " ", "d", "i", "s", "k">>,
     <<"k", "%", "s", "d", "a">>}

InitSearch ==
    /\ cfg = [depth |-> DefaultDepth, max_child |-> DefaultMaxChild,
              with_ids |-> FALSE]
    /\ tree = EmptyTree
    /\ template_cache = <<>>
    /\ templates = <<>>
    /\ calls = <<>>
    /\ restarts = 0
    /\ InitDb
    /\ rag = NoCall
    /\ InitOther

\* one call of store_log_entry(log_line), an hour after the one before
StoreLine(log_line) ==
    LET st == StoreLogEntry(logs, lexical_index, now, log_line, Null, NoEmbedding)
    IN /\ out = NoCall
       /\ Len(logs) < MaxLogs
       /\ logs' = st.logs
       /\ lexical_index' = st.lexical_index
       /\ now' = now + 1
       /\ UNCHANGED <<parserVars, incidents, rag, threads, worker, out,
                      mcpVars>>

\* one call of search_logs_by_pattern(pattern, hours)
Search(pattern, hours) ==
    /\ out = NoCall
    /\ out' = [called |-> TRUE, op |-> "search", pattern |-> pattern,
               hours |-> hours,
               result |-> SearchLogsByPattern(logs, lexical_index, now,
                                              pattern, hours)]
    /\ UNCHANGED <<parserVars, dbVars, rag, threads, worker, mcpVars>>

NextSearch ==
    \/ \E log_line \in StoredLines : StoreLine(log_line)
    \/ \E pattern \in Patterns, hours \in Windows : Search(pattern, hours)
    \/ DropOut

SpecSearch == InitSearch /\ [][NextSearch]_vars

(***************************************************************************)
(* _calculate_similarity called alone on two sequences of up to MaxTokens  *)
(* tokens, repeated tokens included.                                       *)
(***************************************************************************)
SimilarityTokens == {<<"a">>, <<"b">>, NUM}

TokenSequences == UNION {[1..n -> SimilarityTokens] : n \in 0..MaxTokens}

\* one call of DrainParser._calculate_similarity, which reads no field of
\* the parser
SimilarityCall(tokens1, tokens2) ==
    /\ out = NoCall
    /\ out' = [called |-> TRUE, op |-> "similarity", tokens1 |-> tokens1,
               tokens2 |-> tokens2,
               similarity |-> CalculateSimilarity(tokens1, tokens2)]
    /\ UNCHANGED <<parserVars, dbVars, rag, threads, worker, mcpVars>>

NextSimilarity ==
    \/ \E tokens1, tokens2 \in TokenSequences : SimilarityCall(tokens1, tokens2)
    \/ DropOut

SpecSimilarity == InitTokenize /\ [][NextSimilarity]_vars

(***************************************************************************)
(* The parser fed lines that match a template of the tree without being    *)
(* in the cache: shallow parsers (depth 1 and 2), since a leaf compares    *)
(* the tokens left after the descent with the whole template.              *)
(***************************************************************************)
\* "disk 7 full sda"
Disk7Sda ==
    <<"d", "i", "s", "k", " ", "7", " ", "f", "u", "l", "l", " ", "s",
    "d", "a">>
\* "disk 5 full"
Disk5Short ==
    <<"d", "i", "s", "k", " ", "5", " ", "f", "u", "l", "l">>

MergeLines == {Disk5, Disk7Sda, Disk7, Disk5Short}

InitMerge ==
    /\ cfg \in {[depth |-> d, max_child |-> 2, with_ids |-> w] :
                   d \in {1, 2}, w \in BOOLEAN}
    /\ tree = EmptyTree
    /\ template_cache = <<>>
    /\ templates = <<>>
    /\ calls = <<>>
    /\ restarts = 0
    /\ InitDb
    /\ rag = NoCall
    /\ InitOther

NextMerge ==
    \E log_line \in MergeLines :
        ParseCall(log_line, IF cfg.with_ids THEN Len(calls) + 1 ELSE NoId, TRUE)

SpecMerge == InitMerge /\ [][NextMerge]_vars

(***************************************************************************)
(* Lookups on a tree of depth 2 and fanout 2 whose lines are long enough   *)
(* to be found again, below a per-token child and below the <*> child.     *)
(***************************************************************************)
WideLines ==
    {<<"a", " ", "x", " ", "w", " ", "v">>, <<"b", " ", "x", " ", "w", " ", "v">>,
     <<"c", " ", "x", " ", "w", " ", "v">>, <<"c", " ", "y", " ", "w", " ", "v">>,
     <<"a", " ", "y", " ", "w", " ", "v">>}

NextLookup ==
    \/ \E log_line \in WideLines : TreeInsert(log_line)
    \/ \E log_line \in WideLines : Lookup(Tokenize(log_line))
    \/ DropOut

SpecLookup == InitTree /\ [][NextLookup]_vars

(***************************************************************************)
(* start() and stop() of one LogIngestion over the threads it has started. *)
(* threads[t] is the t-th thread start() created; worker.running is the    *)
(* flag of the instance.  A worker thread waits in readline for its        *)
(* source, so the join of stop(), which gives up after 5 seconds, can      *)
(* return while the thread is alive: stop() is the clearing of the flag,   *)
(* and the thread's steps come before or after it.                         *)
(***************************************************************************)
MaxThreads == 2

\* LogIngestion.start
StartCall ==
    /\ Len(threads) < MaxThreads
    /\ IF worker.running
       THEN UNCHANGED <<worker, threads>>
       ELSE /\ worker' = [worker EXCEPT !.running = TRUE]
            /\ threads' = Append(threads, [alive |-> TRUE, processed |-> 0,
                                           stale |-> FALSE])
    /\ out' = [called |-> TRUE, op |-> "start", was_running |-> worker.running,
               threads_before |-> Len(threads)]
    /\ UNCHANGED <<parserVars, dbVars, rag, mcpVars>>

\* LogIngestion.stop
StopCall ==
    /\ worker' = [worker EXCEPT !.running = FALSE]
    /\ out' = [called |-> TRUE, op |-> "stop", was_running |-> worker.running,
               threads_before |-> Len(threads)]
    /\ UNCHANGED <<parserVars, dbVars, rag, threads, mcpVars>>

\* _ingestion_worker of thread t, lines 195-199: its source yields a line;
\* the thread leaves the loop when running is cleared and processes the line
\* otherwise.  stale: the line was processed by a thread that is not the
\* one start() created last.
ThreadNext(t, log_line) ==
    /\ threads[t].alive
    /\ IF ~worker.running
       THEN /\ threads' = [threads EXCEPT ![t].alive = FALSE]
            /\ UNCHANGED <<parserVars, dbVars>>
       ELSE /\ Len(logs) < MaxLogs
            /\ \E r \in {ProcessLogLineCall(cfg, tree, template_cache, templates,
                                             logs, lexical_index, log_line, now,
                                             FALSE, FALSE, FALSE)} :
                   /\ tree' = r.tree
                   /\ template_cache' = r.template_cache
                   /\ templates' = r.templates
                   /\ logs' = r.logs
                   /\ lexical_index' = r.lexical_index
            /\ now' = now + 1
            /\ threads' = [threads EXCEPT ![t].processed = @ + 1,
                                          ![t].stale = @ \/ t < Len(threads)]
            /\ UNCHANGED <<cfg, calls, restarts, incidents>>
    /\ UNCHANGED <<rag, worker, out, mcpVars>>

\* _ingestion_worker of thread t, lines 201-202: its source raises, or ends
ThreadSourceStops(t) ==
    /\ threads[t].alive
    /\ threads' = [threads EXCEPT ![t].alive = FALSE]
    /\ UNCHANGED <<parserVars, dbVars, rag, worker, out, mcpVars>>

NextLifecycle ==
    \/ StartCall
    \/ StopCall
    \/ \E t \in 1..Len(threads), log_line \in {TimeoutLine, Disk5} :
           ThreadNext(t, log_line)
    \/ \E t \in 1..Len(threads) : ThreadSourceStops(t)

SpecLifecycle == InitWorker /\ [][NextLifecycle]_vars

(***************************************************************************)
(* The remediation path: mcp_tools.validate_tool_request, the approval     *)
(* gate (src/approval_gate.py), mcp_server.execute_mcp_tool and            *)
(* incident_handler.handle_incident.  config.json is read anew by every    *)
(* function of the gate; it is taken not to change during one call.        *)
(***************************************************************************)
\* mcp_tools.load_mcp_schema when mcp_schema.json is missing; none of the
\* tools has a required parameter
ToolRegistry == {"RESTART_APACHE", "CLEAR_TEMP_CACHE", "ESCALATE"}

\* mcp_tools.validate_tool_request(tool_name)
ValidateToolRequest(tool_name) == tool_name \in ToolRegistry

\* approval_gate.requires_approval
RequiresApproval(conf, action_name) == action_name \in conf.requires_approval

\* approval_gate.request_approval.  answer is what stdin gives: "none" when
\* it is no terminal, else the y or n the prompt insists on.  approved_by
\* None is "".
RequestApproval(conf, action_name, answer) ==
    IF conf.dry_run_mode THEN [approved |-> FALSE, approved_by |-> "dry_run_mode"]
    ELSE IF ~RequiresApproval(conf, action_name)
    THEN [approved |-> TRUE, approved_by |-> "auto_approved"]
    ELSE IF answer = "none" THEN [approved |-> FALSE, approved_by |-> ""]
    ELSE IF answer = "y" THEN [approved |-> TRUE, approved_by |-> "USER"]
    ELSE [approved |-> FALSE, approved_by |-> ""]

\* mcp_server.log_audit_event
LogAuditEvent(aud, tool_name, incident_id, status, approved_by) ==
    Append(aud, [tool_name |-> tool_name, incident_id |-> incident_id,
                 status |-> status, approved_by |-> approved_by])

\* what subprocess.run(["./actions.sh", tool_name]) can do: return 0, return
\* 0 before record_action raises, return another code, run into the timeout,
\* or raise before the script has started
ScriptOutcomes == {"ok", "unrecorded", "failed", "timeout", "missing"}

\* mutant of lines 56-58: a rejected approval does not end the call
ExecuteMcpToolUngated(conf, acts, aud, tool_name, incident_id, answer, script) ==
    LET asked == RequiresApproval(conf, tool_name)
        a == RequestApproval(conf, tool_name, answer)
        approved_by == IF asked THEN a.approved_by ELSE "auto_approved"
        aud1 == LogAuditEvent(aud, tool_name, incident_id, "validated", "")
        aud2 == IF asked
                THEN LogAuditEvent(aud1, tool_name, incident_id, "approved", approved_by)
                ELSE aud1
        recorded == script = "ok" /\ incident_id \notin {Null, 0}
        done(status, success, ran, aud0) ==
            [actions |-> IF recorded /\ status = "executed"
                         THEN Append(acts, [incident_id |-> incident_id,
                                            action_name |-> tool_name,
                                            status |-> "executed",
                                            approved_by |-> approved_by])
                         ELSE acts,
             audit |-> LogAuditEvent(aud0, tool_name, incident_id, status, approved_by),
             success |-> success, message |-> status, asked |-> asked,
             approved |-> asked /\ a.approved, ran |-> ran,
             recorded |-> recorded /\ status = "executed"]
    IN IF ~ValidateToolRequest(tool_name)
       THEN [actions |-> acts,
             audit |-> LogAuditEvent(aud, tool_name, incident_id, "validation_failed", ""),
             success |-> FALSE, message |-> "validation_failed", asked |-> FALSE,
             approved |-> FALSE, ran |-> FALSE, recorded |-> FALSE]
       ELSE IF conf.dry_run_mode THEN done("dry_run", TRUE, FALSE, aud2)
       ELSE IF script = "ok" \/ (script = "unrecorded" /\ incident_id \in {Null, 0})
       THEN done("executed", TRUE, TRUE, aud2)
       ELSE IF script = "unrecorded" THEN done("error", FALSE, TRUE, aud2)
       ELSE IF script = "failed" THEN done("failed", FALSE, TRUE, aud2)
       ELSE IF script = "timeout" THEN done("timeout", FALSE, TRUE, aud2)
       ELSE done("error", FALSE, FALSE, aud2)

\* mutant of lines 64-67: the dry run mode is not looked at
ExecuteMcpToolNoDryRun(conf, acts, aud, tool_name, incident_id, answer, script) ==
    LET asked == RequiresApproval(conf, tool_name)
        a == RequestApproval(conf, tool_name, answer)
        approved_by == IF asked THEN a.approved_by ELSE "auto_approved"
        aud1 == LogAuditEvent(aud, tool_name, incident_id, "validated", "")
        aud2 == IF asked
                THEN LogAuditEvent(aud1, tool_name, incident_id, "approved", approved_by)
                ELSE aud1
        recorded == script = "ok" /\ incident_id \notin {Null, 0}
        done(status, success, ran, aud0) ==
            [actions |-> IF recorded /\ status = "executed"
                         THEN Append(acts, [incident_id |-> incident_id,
                                            action_name |-> tool_name,
                                            status |-> "executed",
                                            approved_by |-> approved_by])
                         ELSE acts,
             audit |-> LogAuditEvent(aud0, tool_name, incident_id, status, approved_by),
             success |-> success, message |-> status, asked |-> asked,
             approved |-> asked /\ a.approved, ran |-> ran,
             recorded |-> recorded /\ status = "executed"]
    IN IF ~ValidateToolRequest(tool_name)
       THEN [actions |-> acts,
             audit |-> LogAuditEvent(aud, tool_name, incident_id, "validation_failed", ""),
             success |-> FALSE, message |-> "validation_failed", asked |-> FALSE,
             approved |-> FALSE, ran |-> FALSE, recorded |-> FALSE]
       ELSE IF asked /\ ~a.approved THEN done("rejected", FALSE, FALSE, aud1)
       ELSE IF script = "ok" \/ (script = "unrecorded" /\ incident_id \in {Null, 0})
       THEN done("executed", TRUE, TRUE, aud2)
       ELSE IF script = "unrecorded" THEN done("error", FALSE, TRUE, aud2)
       ELSE IF script = "failed" THEN done("failed", FALSE, TRUE, aud2)
       ELSE IF script = "timeout" THEN done("timeout", FALSE, TRUE, aud2)
       ELSE done("error", FALSE, FALSE, aud2)

\* mcp_server.execute_mcp_tool: the tables and the audit log after it, what
\* it returns (success, and the message by the status it was built for) and
\* what it did on the way: asked (request_approval was called), approved
\* (it returned approved = True), ran (actions.sh was started), recorded
\* (record_action stored an executed action)
ExecuteMcpTool(conf, acts, aud, tool_name, incident_id, answer, script) ==
    LET asked == RequiresApproval(conf, tool_name)
        a == RequestApproval(conf, tool_name, answer)
        approved_by == IF asked THEN a.approved_by ELSE "auto_approved"
        aud1 == LogAuditEvent(aud, tool_name, incident_id, "validated", "")
        aud2 == IF asked
                THEN LogAuditEvent(aud1, tool_name, incident_id, "approved", approved_by)
                ELSE aud1
        recorded == script = "ok" /\ incident_id \notin {Null, 0}
        done(status, success, ran, aud0) ==
            [actions |-> IF recorded /\ status = "executed"
                         THEN Append(acts, [incident_id |-> incident_id,
                                            action_name |-> tool_name,
                                            status |-> "executed",
                                            approved_by |-> approved_by])
                         ELSE acts,
             audit |-> LogAuditEvent(aud0, tool_name, incident_id, status, approved_by),
             success |-> success, message |-> status, asked |-> asked,
             approved |-> asked /\ a.approved, ran |-> ran,
             recorded |-> recorded /\ status = "executed"]
    IN IF ~ValidateToolRequest(tool_name)
       THEN [actions |-> acts,
             audit |-> LogAuditEvent(aud, tool_name, incident_id, "validation_failed", ""),
             success |-> FALSE, message |-> "validation_failed", asked |-> FALSE,
             approved |-> FALSE, ran |-> FALSE, recorded |-> FALSE]
       ELSE IF asked /\ ~a.approved THEN done("rejected", FALSE, FALSE, aud1)
       ELSE IF conf.dry_run_mode THEN done("dry_run", TRUE, FALSE, aud2)
       ELSE IF script = "ok" \/ (script = "unrecorded" /\ incident_id \in {Null, 0})
       THEN done("executed", TRUE, TRUE, aud2)
       ELSE IF script = "unrecorded" THEN done("error", FALSE, TRUE, aud2)
       ELSE IF script = "failed" THEN done("failed", FALSE, TRUE, aud2)
       ELSE IF script = "timeout" THEN done("timeout", FALSE, TRUE, aud2)
       ELSE done("error", FALSE, FALSE, aud2)

\* "DRY RUN" in message.upper(): of the messages execute_mcp_tool builds for
\* the tools of the registry, the one of the dry run alone
MentionsDryRun(message) == message = "dry_run"

\* mutant of lines 45-47: every successful action resolves the incident
HandleIncidentResolvingAll(conf, incs, acts, aud, log_line, action_name, answer, script) ==
    LET incident_id == Len(incs) + 1
        incs1 == Append(incs, [log_line |-> log_line, status |-> "open"])
        e == ExecuteMcpTool(conf, acts, aud, action_name, incident_id, answer, script)
    IN [incidents |-> IF e.success
                      THEN [incs1 EXCEPT ![incident_id].status = "resolved"]
                      ELSE incs1,
        actions |-> e.actions, audit |-> e.audit, incident_id |-> incident_id,
        exit_code |-> IF e.success THEN 0 ELSE 1,
        exec |-> [success |-> e.success, message |-> e.message, asked |-> e.asked,
                  approved |-> e.approved, ran |-> e.ran, recorded |-> e.recorded]]

\* incident_handler.handle_incident.  The RAG summary of lines 31-40 changes
\* only the summary text handed to the approval prompt.
HandleIncident(conf, incs, acts, aud, log_line, action_name, answer, script) ==
    LET incident_id == Len(incs) + 1
        incs1 == Append(incs, [log_line |-> log_line, status |-> "open"])
        e == ExecuteMcpTool(conf, acts, aud, action_name, incident_id, answer, script)
    IN [incidents |-> IF e.success /\ ~MentionsDryRun(e.message)
                      THEN [incs1 EXCEPT ![incident_id].status = "resolved"]
                      ELSE incs1,
        actions |-> e.actions, audit |-> e.audit, incident_id |-> incident_id,
        exit_code |-> IF e.success THEN 0 ELSE 1,
        exec |-> [success |-> e.success, message |-> e.message, asked |-> e.asked,
                  approved |-> e.approved, ran |-> e.ran, recorded |-> e.recorded]]

MaxAudit == 3

\* "UNKNOWN_TOOL" is in no registry
ToolNames == ToolRegistry \cup {"UNKNOWN_TOOL"}
Answers == {"none", "y", "n"}
\* None, or the id of some incident: the actions table takes any id
IncidentIds == {Null, 1, 2}

InitMcpServer ==
    /\ cfg = [depth |-> DefaultDepth, max_child |-> DefaultMaxChild,
              with_ids |-> FALSE]
    /\ tree = EmptyTree
    /\ template_cache = <<>>
    /\ templates = <<>>
    /\ calls = <<>>
    /\ restarts = 0
    /\ InitDb
    /\ rag = NoCall
    /\ threads = <<>>
    /\ worker = IdleWorker
    /\ out = NoCall
    /\ config \in {[DefaultConfig EXCEPT !.dry_run_mode = d] : d \in BOOLEAN}
    /\ actions = <<>>
    /\ audit = <<>>

\* execute_mcp_tool called for no incident or for a recorded one
ExecuteCall(tool_name, incident_id, answer, script) ==
    /\ out = NoCall
    /\ Len(audit) < MaxAudit
    /\ \E e \in {ExecuteMcpTool(config, actions, audit, tool_name, incident_id,
                                 answer, script)} :
           /\ actions' = e.actions
           /\ audit' = e.audit
           /\ out' = [called |-> TRUE, op |-> "execute", tool_name |-> tool_name,
                      incident_id |-> incident_id, exit_code |-> Null,
                      answer |-> answer, script |-> script,
                      exec |-> [success |-> e.success, message |-> e.message,
                                asked |-> e.asked, approved |-> e.approved,
                                ran |-> e.ran, recorded |-> e.recorded]]
    /\ UNCHANGED <<parserVars, dbVars, rag, threads, worker, config>>

\* handle_incident(log_line, summary, action_name)
HandleIncidentCall(log_line, action_name, answer, script) ==
    /\ out = NoCall
    /\ Len(audit) < MaxAudit
    /\ \E r \in {HandleIncident(config, incidents, actions, audit, log_line,
                                 action_name, answer, script)} :
           /\ incidents' = r.incidents
           /\ actions' = r.actions
           /\ audit' = r.audit
           /\ out' = [called |-> TRUE, op |-> "handle", tool_name |-> action_name,
                      incident_id |-> r.incident_id, exit_code |-> r.exit_code,
                      answer |-> answer, script |-> script, exec |-> r.exec]
    /\ UNCHANGED <<parserVars, logs, lexical_index, now, rag, threads, worker,
                   config>>

NextMcpServer ==
    \/ \E tool_name \in ToolNames, incident_id \in IncidentIds,
          answer \in Answers, script \in ScriptOutcomes :
           ExecuteCall(tool_name, incident_id, answer, script)
    \/ \E action_name \in ToolNames, answer \in Answers, script \in ScriptOutcomes :
           HandleIncidentCall(TimeoutLine, action_name, answer, script)
    \/ DropOut

SpecMcpServer == InitMcpServer /\ [][NextMcpServer]_vars

(***************************************************************************)
(* Claims about the parser and its catalog (SpecParser).                   *)
(***************************************************************************)
\* calls i and i + 1 are two calls in a row, on one parser, of one raw line
TwiceInARow(i) ==
    /\ i \in 1..(Len(calls) - 1)
    /\ calls[i].log_line = calls[i + 1].log_line
    /\ calls[i].restarts = calls[i + 1].restarts

\* the first two calls are scenario A on an empty parser and an empty catalog
ScenarioAParsed ==
    /\ Len(calls) >= 2
    /\ calls[1].log_line = ScenarioA1
    /\ calls[2].log_line = ScenarioA2
    /\ calls[2].restarts = 0

\* C1: after scenario A on an empty parser and catalog both lines have the
\* same template id, one template exists, its pattern holds the token <IP>
\* and its catalog frequency is 2.
C1_ScenarioACollapses ==
    ScenarioAParsed =>
        /\ calls[1].template_id = calls[2].template_id
        /\ calls[2].rows_after = 1
        /\ IP \in Range(SplitWs(calls[2].template))
        /\ calls[2].frequency_after = 2

PlacesOf(list, log_id) == {k \in 1..Len(list) : list[k].log_id = log_id}

\* the semantic score step 2 gave log_id; called only when it gave one
SemanticScore(log_id) ==
    rag.semantic_logs[CHOOSE k \in 1..Len(rag.semantic_logs) :
                          rag.semantic_logs[k].log_id = log_id].similarity

\* the log_ids produced by both template correlation and semantic retrieval
ProducedByBoth ==
    {i \in Range(rag.template_logs) : PlacesOf(rag.semantic_logs, i) # {}}

\* e carries the higher of 0.9 and the semantic score of its entry, and the
\* method label of the path that gave that score
CarriesHigherScore(e) ==
    IF FracGT(SemanticScore(e.log_id), TemplateScore)
    THEN e.similarity = SemanticScore(e.log_id) /\ e.retrieval_method = "semantic"
    ELSE e.similarity = TemplateScore /\ e.retrieval_method = "template"

NoIdTwice(list) ==
    \A k1, k2 \in 1..Len(list) : list[k1].log_id = list[k2].log_id => k1 = k2

\* C4 as stated: an entry produced by both template correlation and semantic
\* retrieval is in the result exactly once, with the higher of the two
\* scores and that path's method label, and no entry id is in the result
\* twice.
C4_MergeAsStated ==
    rag.called =>
        /\ \A i \in ProducedByBoth :
               /\ Cardinality(PlacesOf(rag.result, i)) = 1
               /\ \A k \in PlacesOf(rag.result, i) : CarriesHigherScore(rag.result[k])
        /\ NoIdTwice(rag.result)

\* C4 amended: an entry produced by both template correlation and semantic
\* retrieval is merged into one entry with the higher of the two scores and
\* that path's method label; the result holds it at most once, and exactly
\* once when the merged entries number at most top_k or when its semantic
\* score is above 0.9; no entry id is in the result twice.
C4_Merge ==
    rag.called =>
        /\ \A i \in ProducedByBoth :
               /\ Cardinality(PlacesOf(rag.all_logs, i)) = 1
               /\ \A k \in PlacesOf(rag.all_logs, i) :
                      CarriesHigherScore(rag.all_logs[k])
               /\ Cardinality(PlacesOf(rag.result, i)) <= 1
               /\ \A k \in PlacesOf(rag.result, i) : CarriesHigherScore(rag.result[k])
               /\ (Len(rag.all_logs) <= rag.top_k
                   \/ FracGT(SemanticScore(i), TemplateScore)) =>
                      Cardinality(PlacesOf(rag.result, i)) = 1
        /\ NoIdTwice(rag.all_logs)
        /\ NoIdTwice(rag.result)

\* C4 witness: a call produced an entry by both paths, its semantic score
\* above 0.9, and returned it with that score and method semantic
C4_Witness ==
    /\ rag.called
    /\ \E i \in ProducedByBoth :
           /\ FracGT(SemanticScore(i), TemplateScore)
           /\ \E k \in PlacesOf(rag.result, i) :
                  /\ rag.result[k].retrieval_method = "semantic"
                  /\ rag.result[k].similarity = SemanticScore(i)

\* C5: the result has at most top_k entries, is in non-increasing score
\* order, and of two entries of equal score the more recent comes first.
C5_OrderAsStated ==
    rag.called =>
        /\ Len(rag.result) <= rag.top_k
        /\ \A k1, k2 \in 1..Len(rag.result) :
               k1 < k2 =>
                   /\ FracGE(rag.result[k1].similarity, rag.result[k2].similarity)
                   /\ rag.result[k1].similarity = rag.result[k2].similarity =>
                          rag.result[k1].timestamp >= rag.result[k2].timestamp

\* C6: keyword search runs, and a result with method keyword is returned,
\* only when template correlation and semantic retrieval both produced
\* nothing; the keywords searched are then the first 3 of the query at most.
C6_KeywordFallbackOnly ==
    rag.called =>
        /\ (\/ rag.searched # <<>>
            \/ rag.keyword_logs # <<>>
            \/ \E k \in 1..Len(rag.result) :
                   rag.result[k].retrieval_method = "keyword") =>
               rag.template_logs = <<>> /\ rag.semantic_logs = <<>>
        /\ Len(rag.searched) <= KeywordsPerQuery
        /\ rag.searched \in {<<>>, Prefix(FindWords(LowerText(rag.query)),
                                          KeywordsPerQuery)}
        /\ \A k \in 1..Len(rag.result) :
               rag.result[k].retrieval_method = "keyword" =>
                   rag.result[k].similarity = KeywordScore

\* C6 witness: a query of four keywords fell back to keyword search, three
\* keywords were searched, and a keyword result was returned
C6_Witness ==
    /\ rag.called
    /\ Len(FindWords(LowerText(rag.query))) > KeywordsPerQuery
    /\ Len(rag.searched) = KeywordsPerQuery
    /\ \E k \in 1..Len(rag.result) : rag.result[k].retrieval_method = "keyword"

\* the call is retrieve("connection failed", 24 hours, top_k = 5) with no
\* embedder and no source incident, and both lines of scenario A are stored
\* inside its window
ScenarioB ==
    /\ rag.called
    /\ ~rag.embedder
    /\ rag.incident_id = 0
    /\ rag.query = QueryConnectionFailed
    /\ rag.hours = 24
    /\ rag.top_k = 5
    /\ \A line \in {ScenarioA1, ScenarioA2} :
           \E i \in 1..Len(logs) :
               logs[i].log_line = line /\ logs[i].timestamp >= rag.cutoff

\* C7: in scenario B the result holds each stored scenario-A entry exactly
\* once, with method keyword.
C7_ScenarioB ==
    ScenarioB =>
        \A i \in 1..Len(logs) :
            logs[i].log_line \in {ScenarioA1, ScenarioA2} =>
                /\ Cardinality(PlacesOf(rag.result, i)) = 1
                /\ \A k \in PlacesOf(rag.result, i) :
                       rag.result[k].retrieval_method = "keyword"

\* C7 witness: scenario B has run on a store with embeddings and returned
\* two entries
C7_Witness ==
    /\ ScenarioB
    /\ \E i \in 1..Len(logs) : logs[i].embedding_vector # NoEmbedding
    /\ Len(rag.result) = 2

\* the source entry of the call: the first log row whose text is the text of
\* the incident supplied; 0 when there is none
SourceEntry ==
    LET joined == {i \in 1..Len(logs) :
                     /\ rag.incident_id \in 1..Len(incidents)
                     /\ logs[i].log_line = incidents[rag.incident_id].log_line}
    IN IF joined = {} THEN 0 ELSE CHOOSE i \in joined : \A j \in joined : i <= j

\* C8: with a source incident, the template step returns exactly the entries
\* other than the source entry that have its template id and lie inside the
\* window, each merged with score 0.9 and method template unless a semantic
\* score is higher; the source entry is not among them.
C8_TemplateStepAsStated ==
    (rag.called /\ SourceEntry # 0) =>
        /\ Range(rag.template_logs) =
               {i \in 1..Len(logs) :
                   /\ i # SourceEntry
                   /\ logs[i].template_id = logs[SourceEntry].template_id
                   /\ logs[i].timestamp >= rag.cutoff}
        /\ SourceEntry \notin Range(rag.template_logs)

\* C9: every result has a score in [0, 1] and a method among template,
\* semantic and keyword.
C9_ScoreRangeAsStated ==
    rag.called =>
        \A k \in 1..Len(rag.result) :
            /\ FracGE(rag.result[k].similarity, <<0, 1>>)
            /\ FracGE(<<1, 1>>, rag.result[k].similarity)
            /\ rag.result[k].retrieval_method \in {"template", "semantic", "keyword"}

\* C10: a call without an embedder does not scan the stored embeddings,
\* returns no result with method semantic, and returns a list of template
\* and keyword results of at most top_k entries.
C10_NoEmbedder ==
    (rag.called /\ ~rag.embedder) =>
        /\ ~rag.scanned
        /\ rag.semantic_logs = <<>>
        /\ Len(rag.result) <= rag.top_k
        /\ \A k \in 1..Len(rag.result) :
               rag.result[k].retrieval_method \in {"template", "keyword"}

\* C10 witness: a call without an embedder, on a store where every row has
\* an embedding, returned a template result first
C10_Witness ==
    /\ rag.called
    /\ ~rag.embedder
    /\ logs # <<>>
    /\ \A i \in 1..Len(logs) : logs[i].embedding_vector # NoEmbedding
    /\ rag.result # <<>>
    /\ rag.result[1].retrieval_method = "template"

(***************************************************************************)
(* Claims about the tree (SpecTree).                                        *)
(***************************************************************************)
\* the node whose groups a step changed: the leaf an insert ended in
ChangedLeaves ==
    {q \in DOMAIN tree' :
        tree'[q].log_groups # (IF q \in DOMAIN tree THEN tree[q].log_groups ELSE <<>>)}

\* the step is an insert whose route from the root passes through path and
\* goes on below it
InsertedThrough(path) ==
    \E q \in ChangedLeaves : Len(q) > Len(path) /\ SubSeq(q, 1, Len(path)) = path

\* C11: once a node has max_child children, an insert through it leaves it
\* with a <*> child, is routed into that child, and no step gives the node
\* another per-token child.
C11_WildcardFallback ==
    [][\A path \in DOMAIN tree :
           Cardinality(Children(tree, path)) >= cfg.max_child =>
               /\ Children(tree', path) \ Children(tree, path)
                      \subseteq {Append(path, WILD)}
               /\ InsertedThrough(path) =>
                      /\ Append(path, WILD) \in DOMAIN tree'
                      /\ \A q \in ChangedLeaves :
                             SubSeq(q, 1, Len(path) + 1) = Append(path, WILD)]_vars

\* C11 witness: the root is full, its <*> child was created, and two later
\* inserts were routed through that child to two leaves
C11_Witness ==
    /\ Cardinality(Children(tree, <<>>) \ {<<WILD>>}) = cfg.max_child
    /\ <<WILD>> \in DOMAIN tree
    /\ Cardinality({q \in Children(tree, <<WILD>>) : tree[q].log_groups # <<>>}) >= 2

\* C12: no node of the tree has more than max_child children, the wildcard
\* child included.
C12_FanoutAsStated ==
    \A path \in DOMAIN tree : Cardinality(Children(tree, path)) <= cfg.max_child

Succeeded == {i \in 1..Len(calls) : calls[i].ok}
SucceededFor(template_pattern) ==
    {i \in Succeeded : calls[i].template = template_pattern}

\* C14: for each pattern the catalog frequency is the number of successful
\* get_or_create calls made for it, and total_logs_parsed is the number of
\* parse calls that reached the catalog successfully.
C14_FrequencyCountsCalls ==
    /\ \A i \in 1..Len(calls) :
           FrequencyOf(templates, calls[i].template)
               = Cardinality(SucceededFor(calls[i].template))
    /\ \A r \in 1..Len(templates) :
           templates[r].frequency
               = Cardinality(SucceededFor(templates[r].template_pattern))
    /\ GetTemplateStatistics(templates, cfg).total_logs_parsed
           = Cardinality(Succeeded)
    /\ GetTemplateStatistics(templates, cfg).total_templates
           = Cardinality({calls[i].template : i \in Succeeded})

\* C14 witness: one pattern was reached by a creating call, by a later
\* successful call and by a failed call
C14_Witness ==
    /\ GetTemplateStatistics(templates, cfg).total_logs_parsed = 2
    /\ \E i, j, k \in 1..Len(calls) :
           /\ i < j
           /\ calls[i].ok /\ calls[j].ok /\ ~calls[k].ok
           /\ calls[i].template = calls[j].template
           /\ calls[k].template = calls[i].template
           /\ calls[i].frequency_before = 0

\* template is held by a group of some node of the tree
InTree(template) ==
    \E path \in DOMAIN tree :
        \E g \in 1..Len(tree[path].log_groups) :
            tree[path].log_groups[g].template = template

CallsFor(template_pattern) ==
    Cardinality({t \in 1..Len(threads) :
                    threads[t].pc \in {"mutate", "done"}
                    /\ threads[t].template = template_pattern})
    + Cardinality({i \in 1..Len(calls) : calls[i].template = template_pattern})

\* C15: when the get_or_create calls of all producers have completed, each
\* pattern called for has one row, every call for it returned that row's id,
\* and its frequency is the number of calls made for it.
C15_NoLostIncrementAsStated ==
    (\A t \in 1..Len(threads) : threads[t].pc \in {"mutate", "done"}) =>
        \A t \in 1..Len(threads) :
            /\ Cardinality(RowOf(templates, threads[t].template)) = 1
            /\ threads[t].template_id \in RowOf(templates, threads[t].template)
            /\ FrequencyOf(templates, threads[t].template)
                   = CallsFor(threads[t].template)

\* the thread has searched the tree and has not yet written what it decided
InTraverseThenMutate(t) ==
    threads[t].pc \in {"select", "write", "mutate"} /\ threads[t].branch # "cache"

\* C16: at most one thread at a time is between its search of the tree and
\* the cache write and _add_to_tree that follow it.
C16_SingleWriterAsStated ==
    Cardinality({t \in 1..Len(threads) : InTraverseThenMutate(t)}) <= 1

(***************************************************************************)
(* Claims about the ingestion worker (SpecWorker).                          *)
(***************************************************************************)
\* the step is the worker processing one line the source yielded
ProcessedALine == worker'.processed = worker.processed + 1

IsBlank(log_line) == log_line = <<>> \/ SplitWs(log_line) = <<>>

\* C18: while the worker runs, a blank line stores nothing and leaves the
\* parser alone, a line whose parse raised is stored without template, a line
\* whose storage raised stores nothing, and after each the worker is alive
\* and running.
C18_WorkerGoesOn ==
    [][ProcessedALine =>
           /\ worker.running /\ worker.alive
           /\ worker'.running /\ worker'.alive
           /\ IsBlank(worker'.last.log_line) =>
                  /\ logs' = logs /\ lexical_index' = lexical_index
                  /\ tree' = tree /\ template_cache' = template_cache
                  /\ templates' = templates
           /\ (~IsBlank(worker'.last.log_line) /\ worker'.last.store_raises) =>
                  logs' = logs /\ lexical_index' = lexical_index
           /\ (~IsBlank(worker'.last.log_line) /\ ~worker'.last.store_raises) =>
                  /\ Len(logs') = Len(logs) + 1
                  /\ logs'[Len(logs')].log_line = worker'.last.log_line
                  /\ worker'.last.parse_raises =>
                         /\ logs'[Len(logs')].template_id = Null
                         /\ tree' = tree /\ templates' = templates]_vars

\* C18 witness: the worker has stored a line without template after a parse
\* that raised, has then met a line whose storage raised, and is alive and
\* running
C18_Witness ==
    /\ worker.running /\ worker.alive
    /\ worker.processed >= 2
    /\ worker.last.store_raises
    /\ ~IsBlank(worker.last.log_line)
    /\ \E i \in 1..Len(logs) : logs[i].template_id = Null

(***************************************************************************)
(* Claims about _tokenize (SpecTokenize).                                   *)
(***************************************************************************)
\* the words of s: the maximal stretches <<first, last>> without whitespace
WordBounds(s) ==
    {b \in (1..Len(s)) \X (1..Len(s)) :
        /\ b[1] <= b[2]
        /\ \A k \in b[1]..b[2] : s[k] \notin Whitespace
        /\ b[1] = 1 \/ s[b[1] - 1] \in Whitespace
        /\ b[2] = Len(s) \/ s[b[2] + 1] \in Whitespace}

\* the k-th word of s from the left
WordAt(s, k) ==
    LET b == CHOOSE b \in WordBounds(s) :
                 Cardinality({c \in WordBounds(s) : c[1] < b[1]}) = k - 1
    IN SubSeq(s, b[1], b[2])

AllDigits(t) == t # <<>> /\ Range(t) \subseteq Digits

DottedQuad(t) ==
    \E a, b, c \in 1..Len(t) :
        /\ a < b /\ b < c
        /\ t[a] = "." /\ t[b] = "." /\ t[c] = "."
        /\ AllDigits(SubSeq(t, 1, a - 1))
        /\ AllDigits(SubSeq(t, a + 1, b - 1))
        /\ AllDigits(SubSeq(t, b + 1, c - 1))
        /\ AllDigits(SubSeq(t, c + 1, Len(t)))

ZeroXHex(t) ==
    /\ Len(t) >= 3
    /\ SubSeq(t, 1, 2) = <<"0", "x">>
    /\ Range(SubSeq(t, 3, Len(t))) \subseteq HexDigits

HasSlash(t) == Range(t) \cap {"/", "\\"} # {}

\* the first rule that applies, in the order <NUM>, <IP>, <HEX>, <PATH>
FirstRule(t) ==
    IF AllDigits(t) THEN NUM
    ELSE IF DottedQuad(t) THEN IP
    ELSE IF ZeroXHex(t) THEN HEX
    ELSE IF HasSlash(t) THEN PATH
    ELSE t

\* C19: _tokenize gives one token per whitespace-delimited word of the line,
\* in order, each word mapped by the first rule that applies (all digits,
\* dotted quad, 0x hex, contains a slash or backslash, otherwise unchanged);
\* an empty or all-whitespace line gives the empty sequence.
C19_Tokenize ==
    (out.called /\ out.op = "tokenize") =>
        LET n == Cardinality(WordBounds(out.log_line))
        IN /\ Len(out.tokens) = n
           /\ \A k \in 1..n : out.tokens[k] = FirstRule(WordAt(out.log_line, k))
           /\ Range(out.log_line) \subseteq Whitespace => out.tokens = <<>>

\* C19 witness: a line with whitespace before, between and after two words,
\* the first a hex value and the second a 0x word that is none
C19_Witness ==
    /\ out.called /\ out.op = "tokenize"
    /\ out.log_line = <<" ", "0", "x", "1", "F", "\t", " ", "0", "x", "Z", "Z", "\n">>
    /\ out.tokens = <<HEX, <<"0", "x", "Z", "Z">>>>

(***************************************************************************)
(* Claims about search_logs_by_pattern (SpecSearch).                        *)
(***************************************************************************)
\* pattern occurs in s, letter for letter
Occurs(pattern, s) ==
    \E i \in 0..(Len(s) - Len(pattern)) :
        SubSeq(s, i + 1, i + Len(pattern)) = pattern

\* the places of s where an occurrence of the first k characters of pattern
\* can end, given the places ends where one of the first k - 1 can, up to the
\* whole pattern: ASCII letters are compared without regard to case, _ of
\* the pattern stands for any one character and % for any run of characters
RECURSIVE EndsOf(_, _, _, _)
EndsOf(pattern, s, k, ends) ==
    IF k > Len(pattern) THEN ends
    ELSE LET next == IF pattern[k] = "%"
                     THEN {j \in 0..Len(s) : \E j0 \in ends : j0 <= j}
                     ELSE {j \in 1..Len(s) :
                             /\ (j - 1) \in ends
                             /\ pattern[k] = "_" \/ Lower(pattern[k]) = Lower(s[j])}
         IN EndsOf(pattern, s, k + 1, next)

\* pattern occurs in s, loosely
OccursLoosely(pattern, s) == EndsOf(pattern, s, 1, 0..Len(s)) # {}

\* \w+ up to the end of the pattern
SingleWord(pattern) == pattern # <<>> /\ Range(pattern) \subseteq WordChars

KeywordsOf(i) == {lexical_index[e].keyword :
                     e \in {x \in 1..Len(lexical_index) : lexical_index[x].log_id = i}}

InWindow(i, hours) == logs[i].timestamp >= now - hours

MostRecentFirst(result) ==
    /\ \A i, j \in 1..Len(result) : i < j => result[i] # result[j]
    /\ \A i, j \in 1..Len(result) :
           i < j => logs[result[i]].timestamp >= logs[result[j]].timestamp

\* C20 as stated: the result is the entries inside the window, most recent
\* first, that have an indexed keyword containing the single-word query, or,
\* for any other query, whose raw text contains the query.
C20_SearchAsStated ==
    (out.called /\ out.op = "search") =>
        /\ MostRecentFirst(out.result)
        /\ Range(out.result) =
               {i \in 1..Len(logs) :
                   /\ InWindow(i, out.hours)
                   /\ IF SingleWord(out.pattern)
                      THEN \E kw \in KeywordsOf(i) : Occurs(out.pattern, kw)
                      ELSE Occurs(out.pattern, logs[i].log_line)}

\* C20: the result is at most RowLimit entries inside the window, most recent
\* first; they are the entries that have an indexed keyword in which the
\* single-word query occurs, or, for any other query, in whose raw text the
\* query occurs, where letters are compared without regard to case, _ in the
\* query stands for any one character and % for any run of characters.
C20_Search ==
    (out.called /\ out.op = "search") =>
        LET matching ==
                {i \in 1..Len(logs) :
                    /\ InWindow(i, out.hours)
                    /\ IF SingleWord(out.pattern)
                       THEN \E kw \in KeywordsOf(i) : OccursLoosely(out.pattern, kw)
                       ELSE OccursLoosely(out.pattern, logs[i].log_line)}
        IN /\ MostRecentFirst(out.result)
           /\ Len(out.result) <= RowLimit
           /\ Range(out.result) \subseteq matching
           /\ Cardinality(matching) <= RowLimit => Range(out.result) = matching

\* C20 witness: two entries with the keyword "disk", the older outside the
\* window of one hour; the single-word query "dis_" returns the newer alone
C20_Witness ==
    /\ out.called /\ out.op = "search"
    /\ out.pattern = <<"d", "i", "s", "_">>
    /\ out.hours = 1
    /\ Len(logs) = 2
    /\ \A i \in 1..2 : <<"d", "i", "s", "k">> \in KeywordsOf(i)
    /\ out.result = <<2>>

(***************************************************************************)
(* Claims about _calculate_similarity (SpecSimilarity).                     *)
(***************************************************************************)
\* C21: the similarity n/d returned for two token sequences is the size of
\* the intersection of their token sets over the size of the union, lies in
\* [0, 1], and is 1 when both sequences are empty.
C21_Jaccard ==
    (out.called /\ out.op = "similarity") =>
        LET A == Range(out.tokens1)
            B == Range(out.tokens2)
            n == out.similarity[1]
            d == out.similarity[2]
        IN /\ d > 0 /\ 0 <= n /\ n <= d
           /\ (A \cup B) # {} =>
                  n * Cardinality(A \cup B) = d * Cardinality(A \cap B)
           /\ (out.tokens1 = <<>> /\ out.tokens2 = <<>>) => n = d

\* C21 witness: two sequences with a repeated token, one token in common
\* and two in all give 1/2
C21_Witness ==
    /\ out.called /\ out.op = "similarity"
    /\ out.tokens1 = <<<<"a">>, <<"a">>>>
    /\ out.tokens2 = <<<<"a">>, <<"b">>>>
    /\ out.similarity = <<1, 2>>

(***************************************************************************)
(* Claims about a line that matches a template of the tree (SpecMerge).    *)
(***************************************************************************)
\* the step is a parse call that found a group of the tree for its line
MatchedCall ==
    /\ Len(calls') = Len(calls) + 1
    /\ calls'[Len(calls')].branch = "match"

\* all groups of the tree, as <<path, index>>
Groups(tr) ==
    UNION {{<<path, i>> : i \in 1..Len(tr[path].log_groups)} : path \in DOMAIN tr}

\* C22: a line that matches a group of the tree at or above the threshold is
\* merged into it: the group's log_ids gain the entry and its frequency
\* rises by 1, the catalog frequency of the template rises by 1, and no
\* template and no group is created.
C22_MergeAsStated ==
    [][MatchedCall =>
          LET call == calls'[Len(calls')]
              m == FindBestMatch(tree, cfg.depth, Tokenize(call.log_line), <<>>, 0)
              before == tree[m.node].log_groups[m.idx]
              after == tree'[m.node].log_groups[m.idx]
          IN /\ Len(after.log_ids) = Len(before.log_ids) + 1
             /\ after.frequency = before.frequency + 1
             /\ call.frequency_after = call.frequency_before + 1
             /\ call.rows_after = call.rows_before
             /\ Groups(tree') = Groups(tree)]_vars

(***************************************************************************)
(* Claims about the order of a lookup (SpecLookup).                         *)
(***************************************************************************)
\* the levels a lookup of tokens descends
Levels(tokens) == IF Len(tokens) < cfg.depth THEN Len(tokens) ELSE cfg.depth

\* a route takes the exact child (TRUE) or the <*> child (FALSE) at each level
Routes(tokens) == [1..Levels(tokens) -> BOOLEAN]

RouteNode(tokens, route) ==
    [i \in 1..Levels(tokens) |-> IF route[i] THEN tokens[i] ELSE WILD]

\* the groups at the end of a route that meet the threshold for the tokens
\* left after the descent
Qualifying(tokens, route) ==
    LET path == RouteNode(tokens, route)
        rest == SubSeq(tokens, Levels(tokens) + 1, Len(tokens))
    IN IF path \notin DOMAIN tree THEN {}
       ELSE {i \in 1..Len(tree[path].log_groups) :
               LET sim == CalculateSimilarity(rest, Tokenize(tree[path].log_groups[i].template))
               IN sim[1] > 0 /\ FracGE(sim, SimilarityThreshold)}

\* route r is tried before route q: exact before <*> at the first level
\* where they part
TriedBefore(r, q) ==
    \E i \in DOMAIN r :
        /\ r[i] /\ ~q[i]
        /\ \A j \in 1..(i - 1) : r[j] = q[j]

\* C23: a lookup returns nothing when no route ends at a qualifying group;
\* otherwise it returns a group at the end of the first route that has one,
\* exact child before <*> child at every level, so that the <*> subtree
\* answers only when the exact child is missing or yields nothing.
C23_ExactBeforeWildcard ==
    (out.called /\ out.op = "lookup") =>
        LET yielding == {r \in Routes(out.tokens) : Qualifying(out.tokens, r) # {}}
        IN IF yielding = {} THEN out.match = NoMatch
           ELSE /\ out.match # NoMatch
                /\ \E r \in yielding :
                       /\ RouteNode(out.tokens, r) = out.match.node
                       /\ out.match.idx \in Qualifying(out.tokens, r)
                       /\ \A q \in yielding :
                              TriedBefore(q, r) =>
                                  RouteNode(out.tokens, q) = RouteNode(out.tokens, r)

\* C23 witness: the leaves below the exact child and below the <*> child of
\* the root both hold a qualifying group, and the exact one is returned
C23_Witness ==
    /\ out.called /\ out.op = "lookup"
    /\ Len(out.tokens) > cfg.depth
    /\ Qualifying(out.tokens, [i \in 1..cfg.depth |-> TRUE]) # {}
    /\ Qualifying(out.tokens, [i \in 1..cfg.depth |-> i # 1]) # {}
    /\ out.tokens[1] # WILD
    /\ out.match.node = SubSeq(out.tokens, 1, cfg.depth)

(***************************************************************************)
(* Claims about the shape of the tree (SpecTree).                           *)
(***************************************************************************)
\* C24: every node's depth field is its distance from the root, every node
\* but the root hangs below a node of the tree under its own token, no node
\* is deeper than the configured depth, and a node at that depth has no
\* children; groups are the only thing it holds.
C24_DepthInvariant ==
    \A path \in DOMAIN tree :
        /\ tree[path].depth = Len(path)
        /\ Len(path) <= cfg.depth
        /\ path # <<>> =>
               /\ SubSeq(path, 1, Len(path) - 1) \in DOMAIN tree
               /\ tree[path].token = path[Len(path)]
        /\ Len(path) = cfg.depth => Children(tree, path) = {}
        /\ tree[path].log_groups # <<>> =>
               \/ Len(path) = cfg.depth
               \/ \E i \in 1..Len(calls) :
                      Len(Tokenize(calls[i].log_line)) = Len(path)

\* C24 witness: after inserts through a per-token child and through the <*>
\* child, a node at the configured depth holds two groups
C24_Witness ==
    /\ <<WILD>> \in DOMAIN tree
    /\ \E path \in DOMAIN tree :
           /\ Len(path) = cfg.depth
           /\ tree[path].depth = cfg.depth
           /\ Len(tree[path].log_groups) >= 2

(***************************************************************************)
(* Claims about the identifier of an ingested line (SpecRAG).               *)
(***************************************************************************)
\* C25: every id a group of the tree stores is the log_id of a row of the
\* logs table, and the id stored with the line that created the group is
\* the log_id under which that line, its keywords and its embedding are
\* stored.
C25_SingleIdAsStated ==
    \A g \in Groups(tree) :
        LET group == tree[g[1]].log_groups[g[2]]
        IN /\ \A k \in 1..Len(group.log_ids) : group.log_ids[k] \in 1..Len(logs)
           /\ logs[group.log_ids[1]].log_line = group.example

(***************************************************************************)
(* Claims about looking up what was just inserted (SpecTree).               *)
(***************************************************************************)
\* C26: right after parse has inserted a new template for a line, a lookup
\* of the line's tokens from the root returns the group of that template.
C26_RoundTripAsStated ==
    (calls # <<>> /\ calls[Len(calls)].branch = "new") =>
        LET tokens == Tokenize(calls[Len(calls)].log_line)
            m == FindBestMatchCall(tree, cfg, tokens).match
        IN /\ m # NoMatch
           /\ tree[m.node].log_groups[m.idx].template = NewTemplate(tokens)

(***************************************************************************)
(* Claims about start() and stop() (SpecLifecycle).                         *)
(***************************************************************************)
\* C27: at most one worker thread of the instance is alive at any time,
\* start() while running creates no thread, and no thread processes a line
\* once start() has created a later one.
C27_SingleWorkerAsStated ==
    /\ Cardinality({t \in 1..Len(threads) : threads[t].alive}) <= 1
    /\ \A t \in 1..Len(threads) : ~threads[t].stale
    /\ (out.called /\ out.op = "start" /\ out.was_running) =>
           Len(threads) = out.threads_before
\* a call of execute_mcp_tool, made directly or by handle_incident, has returned
McpCalled == out.called /\ out.op \in {"execute", "handle"}

\* C28: in every call of execute_mcp_tool for a tool that requires approval,
\* actions.sh is started only if request_approval was called and returned
\* approved = True in that call; an answer other than yes (a no, or no
\* terminal to ask on) is no approval, and a call whose approval was not
\* given returns failure with the rejection message, has not started the
\* script and has recorded no action.
C28_ApprovalBeforeExecution ==
    (McpCalled /\ RequiresApproval(config, out.tool_name)) =>
        /\ out.exec.ran => (out.exec.asked /\ out.exec.approved)
        /\ out.answer \in {"n", "none"} => ~out.exec.approved
        /\ (out.exec.asked /\ ~out.exec.approved) =>
               /\ ~out.exec.success
               /\ out.exec.message = "rejected"
               /\ ~out.exec.ran
               /\ ~out.exec.recorded
               /\ audit[Len(audit)].status = "rejected"

\* C28 witness: a tool that requires approval was approved by the user and
\* actions.sh was started for it.
C28_Witness ==
    /\ McpCalled
    /\ RequiresApproval(config, out.tool_name)
    /\ out.answer = "y"
    /\ out.exec.approved
    /\ out.exec.ran
    /\ audit[Len(audit) - 1].status = "approved"

\* C29: while dry_run_mode is enabled, no call of execute_mcp_tool starts
\* actions.sh or records an executed action, whatever the tool, the answer
\* to the approval prompt and the incident, so the actions table stays empty;
\* and, in either mode, an unknown tool name fails validation: the call
\* returns failure, has written the one audit event validation_failed, has
\* asked for no approval and has started no script.
C29_DryRunAndValidation ==
    McpCalled =>
        /\ config.dry_run_mode =>
               /\ ~out.exec.ran
               /\ ~out.exec.recorded
               /\ actions = <<>>
               /\ \A i \in 1..Len(audit) :
                      audit[i].status \notin {"executed", "failed", "timeout", "error"}
        /\ out.tool_name \notin ToolRegistry =>
               /\ ~out.exec.success
               /\ out.exec.message = "validation_failed"
               /\ ~out.exec.asked
               /\ ~out.exec.ran
               /\ ~out.exec.recorded
               /\ audit[Len(audit)].status = "validation_failed"
               /\ Len(audit) = 1 \/ audit[Len(audit) - 1].status # "validated"

\* C29 witness: in dry run mode a tool that needs no approval, whose script
\* would have succeeded, was reported as a dry run for a recorded incident.
C29_Witness ==
    /\ McpCalled
    /\ config.dry_run_mode
    /\ out.tool_name = "CLEAR_TEMP_CACHE"
    /\ out.script = "ok"
    /\ out.incident_id # Null
    /\ out.exec.success
    /\ out.exec.message = "dry_run"

\* C30: after handle_incident the incident it recorded is resolved only if
\* execute_mcp_tool reported success and actions.sh was really started and
\* returned 0 (no dry run); after a rejected, failed, timed-out or dry-run
\* action the incident is open; and handle_incident returns 0 exactly when
\* execute_mcp_tool reported success.
C30_ResolvedOnlyIfExecuted ==
    (out.called /\ out.op = "handle") =>
        /\ out.incident_id = Len(incidents)
        /\ incidents[out.incident_id].status = "resolved" =>
               /\ out.exec.success
               /\ out.exec.ran
               /\ out.exec.message = "executed"
               /\ ~config.dry_run_mode
        /\ out.exec.message \in {"rejected", "failed", "timeout", "dry_run"} =>
               incidents[out.incident_id].status = "open"
        /\ out.exit_code = 0 <=> out.exec.success
        /\ out.exit_code \in {0, 1}

\* C30 witness: handle_incident resolved its incident after the approved
\* action was executed, and returned 0.
C30_Witness ==
    /\ out.called
    /\ out.op = "handle"
    /\ out.exec.approved
    /\ out.exec.ran
    /\ incidents[out.incident_id].status = "resolved"
    /\ out.exit_code = 0

====
